---- MODULE Spec2Model ----
(***************************************************************************)
(* Model of the provider adapters of v0.diy: the streaming and synchronous *)
(* chat paths of OllamaProvider / OllamaCloudProvider (ollama-provider),   *)
(* LMStudioProvider and LlamaProvider.                                     *)
(*                                                                         *)
(* Text is a sequence of one-character strings.  The upstream body is a   *)
(* sequence of wire symbols, each standing for the bytes between two       *)
(* possible read boundaries:                                               *)
(*   "{" "}"        the opening and closing of the JSON event object       *)
(*   "a" "b" " "    ASCII text inside the event's content string           *)
(*   "\\n"          the JSON escape of a newline inside the content string *)
(*   "C3" "A9"      the two bytes of the UTF-8 encoding of U+00E9          *)
(*   "data: "       the SSE field prefix                                   *)
(*   "[DONE]"       the SSE completion token                               *)
(*   LF             the line terminator                                    *)
(* The code looks at the bytes of a chunk only through TextDecoder.decode  *)
(* and String.split("\n"), so read boundaries inside "data: " or "[DONE]"  *)
(* behave like boundaries inside any other part of a line.                 *)
(***************************************************************************)
EXTENDS Integers, Sequences, FiniteSets, TLC

\* ------------------------------------------------------------------ bounds
\* Most lines an upstream body holds.
MaxLines == 3
\* Most bytes (wire symbols) an upstream body holds.
MaxBytes == 14

\* ------------------------------------------------------------ text helpers
LF == "\n"
ESC_N == "\\n"
U_E9 == "U+00E9"
U_FFFD == "U+FFFD"
DATA_PREFIX == "data: "
DONE_TOKEN == "[DONE]"

\* White space String.prototype.trim removes (of the characters in the model).
WhiteSpace == {" ", LF}

Last(s) == s[Len(s)]
Front(s) == SubSeq(s, 1, Len(s) - 1)

RECURSIVE TrimStart(_)
TrimStart(s) ==
    IF s # <<>> /\ Head(s) \in WhiteSpace THEN TrimStart(Tail(s)) ELSE s

RECURSIVE TrimEnd(_)
TrimEnd(s) ==
    IF s # <<>> /\ Last(s) \in WhiteSpace THEN TrimEnd(Front(s)) ELSE s

\* String.prototype.trim
Trim(s) == TrimEnd(TrimStart(s))

\* String.prototype.split("\n"): the pieces between line terminators; the
\* empty text gives one empty piece.
RECURSIVE SplitFrom(_, _, _)
SplitFrom(s, cur, acc) ==
    IF s = <<>> THEN Append(acc, cur)
    ELSE IF Head(s) = LF THEN SplitFrom(Tail(s), <<>>, Append(acc, cur))
    ELSE SplitFrom(Tail(s), Append(cur, Head(s)), acc)

SplitLines(s) == SplitFrom(s, <<>>, <<>>)

\* String.prototype.split("\n\n"): separators are matched left to right and do
\* not overlap.
RECURSIVE SplitParaFrom(_, _, _)
SplitParaFrom(s, cur, acc) ==
    IF s = <<>> THEN Append(acc, cur)
    ELSE IF Len(s) >= 2 /\ s[1] = LF /\ s[2] = LF
         THEN SplitParaFrom(Tail(Tail(s)), <<>>, Append(acc, cur))
    ELSE SplitParaFrom(Tail(s), Append(cur, Head(s)), acc)

SplitParagraphs(s) == SplitParaFrom(s, <<>>, <<>>)

RECURSIVE Concat(_)
Concat(ss) == IF ss = <<>> THEN <<>> ELSE Head(ss) \o Concat(Tail(ss))

RECURSIVE SelectNonBlank(_)
SelectNonBlank(ps) ==
    IF ps = <<>> THEN <<>>
    ELSE IF Trim(Head(ps)) # <<>>
         THEN <<Head(ps)>> \o SelectNonBlank(Tail(ps))
         ELSE SelectNonBlank(Tail(ps))

\* Blocks that keep the white space around their paragraph.
formatContentUntrimmed(text) ==
    LET paragraphs == SelectNonBlank(SplitParagraphs(text))
    IN  [i \in 1..Len(paragraphs) |-> <<0, paragraphs[i]>>]

\* OllamaProvider.formatContentAsMessageBinaryFormat: one block [0, trim(p)]
\* per non-blank paragraph.
formatContentAsMessageBinaryFormat(content) ==
    LET paragraphs == SelectNonBlank(SplitParagraphs(content))
    IN  IF Len(paragraphs) = 0 /\ Trim(content) # <<>>
        THEN << <<0, Trim(content)>> >>
        ELSE [i \in 1..Len(paragraphs) |-> <<0, Trim(paragraphs[i])>>]

\* A delta that carries only the blocks the old content did not have.
createDeltaNewBlocks(oldContent, newContent) ==
    SubSeq(newContent, Len(oldContent) + 1, Len(newContent))

\* createDelta: the full new content, whatever the old content.
createDelta(oldContent, newContent) == newContent

\* ------------------------------------------------------------ TextDecoder
\* TextDecoder.decode(value, {stream: true}): a lead byte at the end of a chunk
\* is held (pending) until the next chunk; a lead byte not followed by its
\* continuation byte, and a continuation byte on its own, decode to U+FFFD.
RECURSIVE DecodeFrom(_, _, _)
DecodeFrom(pending, bytes, text) ==
    IF bytes = <<>> THEN [text |-> text, pending |-> pending]
    ELSE LET b == Head(bytes)
         IN  IF pending
             THEN IF b = "A9"
                  THEN DecodeFrom(FALSE, Tail(bytes), Append(text, U_E9))
                  ELSE DecodeFrom(FALSE, bytes, Append(text, U_FFFD))
             ELSE IF b = "C3" THEN DecodeFrom(TRUE, Tail(bytes), text)
             ELSE IF b = "A9"
                  THEN DecodeFrom(FALSE, Tail(bytes), Append(text, U_FFFD))
             ELSE DecodeFrom(FALSE, Tail(bytes), Append(text, b))

\* decoder.decode without {stream: true}: nothing is held between chunks.
DecodeNoStream(pending, chunk) ==
    LET r == DecodeFrom(FALSE, chunk, <<>>)
    IN  [text |-> IF r.pending THEN Append(r.text, U_FFFD) ELSE r.text,
         pending |-> FALSE]

Decode(pending, chunk) == DecodeFrom(pending, chunk, <<>>)

\* ------------------------------------------------------------- JSON.parse
\* The characters a content string of an event object holds.
ContentChars == {"a", "b", " ", ESC_N, U_E9, U_FFFD}

Unescape(c) == IF c = ESC_N THEN LF ELSE c

\* JSON.parse of a line followed by the read of the event's incremental text
\* (parsed.message?.content, parsed.choices?.[0]?.delta?.content): the text is
\* an event object exactly when, white space around it aside, it is "{", a
\* content string and "}"; anything else makes JSON.parse throw.
ParseEvent(text) ==
    LET t == Trim(text)
        inner == SubSeq(t, 2, Len(t) - 1)
    IN  IF Len(t) >= 2 /\ t[1] = "{" /\ t[Len(t)] = "}"
           /\ \A i \in 1..Len(inner) : inner[i] \in ContentChars
        THEN [ok |-> TRUE,
              content |-> [i \in 1..Len(inner) |-> Unescape(inner[i])]]
        ELSE [ok |-> FALSE, content |-> <<>>]

\* ------------------------------------------------------------- providers
\* The adapters that issue their own upstream requests.
Providers == {"ollama", "ollama-cloud", "lmstudio", "llama"}

\* OllamaCloudProvider extends OllamaProvider and inherits streamChat/syncChat.
NdjsonProviders == {"ollama", "ollama-cloud"}
SseProviders == {"lmstudio", "llama"}

\* A validation that only the Llama adapter performs.
RequiresApiKeyLlamaOnly(p) == p = "llama"

\* The adapters whose createChat/continueChat reject a config without apiKey
\* (if (!cloudConfig.apiKey) throw ..., if (!apiKey) throw ...).
RequiresApiKey(p) == p \in {"ollama-cloud", "llama"}

\* ---------------------------------------------------------- upstream body
\* The lines an upstream of the newline-JSON family sends.
NdjsonLines ==
    { <<"{", "a", "}">>,                      \* event, content "a"
      <<"{", ESC_N, ESC_N, "C3", "A9", "}">>, \* event, content "\n\n" U+00E9
      <<"{", "}">>,                           \* event without content
      <<"{", "a">> }                          \* truncated JSON

\* The lines an upstream of the SSE family sends.
SseLines ==
    { <<DATA_PREFIX, "{", "a", "}">>,
      <<DATA_PREFIX, "{", "C3", "A9", "}">>,
      <<DATA_PREFIX, "{", "a">>,              \* truncated JSON
      <<DATA_PREFIX, DONE_TOKEN>>,
      <<"{", "a", "}">> }                     \* line without the prefix

\* The bytes of the lines of a list, each with its line terminator.
RECURSIVE BytesOf(_)
BytesOf(ls) == IF ls = <<>> THEN 0 ELSE Len(Head(ls)) + 1 + BytesOf(Tail(ls))

\* The line lists of at most MaxLines lines and MaxBytes bytes.
NdjsonLineLists ==
    {ls \in UNION {[1..n -> NdjsonLines] : n \in 0..MaxLines} :
        BytesOf(ls) <= MaxBytes}
SseLineLists ==
    {ls \in UNION {[1..n -> SseLines] : n \in 0..MaxLines} :
        BytesOf(ls) <= MaxBytes}

LineLists(p) == IF p \in NdjsonProviders THEN NdjsonLineLists ELSE SseLineLists

\* The bytes of a body: every line followed by LF, the last one only when the
\* body is newline-terminated.
RECURSIVE BodyOf(_, _)
BodyOf(ls, terminated) ==
    IF ls = <<>> THEN <<>>
    ELSE IF Len(ls) = 1
         THEN IF terminated THEN Append(Head(ls), LF) ELSE Head(ls)
    ELSE Append(Head(ls), LF) \o BodyOf(Tail(ls), terminated)

\* ---------------------------------------------------------- outbound frames
\* data: {"object":"chat","id":...,"createdAt":...}
MetadataFrame == [type |-> "metadata"]
\* data: {"delta": Document}
DeltaFrame(doc) == [type |-> "delta", delta |-> doc]
\* data: {"type":"text","content":...}
TextFrame(content) == [type |-> "text", content |-> content]
\* data: [DONE]
DoneFrame == [type |-> "done"]

\* ------------------------------------------------- the body of the for loop
\* What one pass over the lines of a chunk carries: the locals of streamChat
\* (fullContent, currentFormattedContent), the frames enqueued, the number of
\* console.error diagnostics of the inner catch, and the incremental texts
\* extracted.
NoProgress ==
    [fullContent |-> <<>>, currentFormattedContent |-> <<>>, frames |-> <<>>,
     logged |-> 0, extracted |-> <<>>]

\* OllamaProvider.streamChat, one line.  controller.enqueue throws a TypeError
\* when the stream is no longer readable; it is inside the inner try, so the
\* TypeError is logged like a parse failure, after fullContent was extended.
NdjsonLine(acc, line, canEnqueue) ==
    IF Trim(line) = <<>> THEN acc
    ELSE LET parsed == ParseEvent(line)
         IN  IF ~parsed.ok THEN [acc EXCEPT !.logged = @ + 1]
             ELSE IF parsed.content = <<>> THEN acc
             ELSE LET full == acc.fullContent \o parsed.content
                      newFormattedContent ==
                          formatContentAsMessageBinaryFormat(full)
                      delta == createDelta(acc.currentFormattedContent,
                                           newFormattedContent)
                  IN  [acc EXCEPT
                         !.fullContent = full,
                         !.currentFormattedContent = newFormattedContent,
                         !.extracted = Append(@, parsed.content),
                         !.frames = IF canEnqueue
                                    THEN Append(@, DeltaFrame(delta)) ELSE @,
                         !.logged = IF canEnqueue THEN @ ELSE @ + 1]

\* A decoder that hands every prefixed payload to the JSON parser.
SseLineParsingDone(acc, line, canEnqueue) ==
    LET t == Trim(line)
    IN  IF t = <<>> \/ Head(t) # DATA_PREFIX THEN acc
        ELSE LET parsed == ParseEvent(Tail(t))
             IN  IF ~parsed.ok THEN [acc EXCEPT !.logged = @ + 1]
                 ELSE IF parsed.content = <<>> THEN acc
                 ELSE [acc EXCEPT
                         !.extracted = Append(@, parsed.content),
                         !.frames = IF canEnqueue
                                    THEN Append(@, TextFrame(parsed.content))
                                    ELSE @,
                         !.logged = IF canEnqueue THEN @ ELSE @ + 1]

\* LMStudioProvider.streamChat and LlamaProvider.streamChat, one line.
SseLine(acc, line, canEnqueue) ==
    LET t == Trim(line)
    IN  IF t = <<>> \/ Head(t) # DATA_PREFIX THEN acc
        ELSE LET data == Tail(t)
             IN  IF data = <<DONE_TOKEN>> THEN acc
                 ELSE LET parsed == ParseEvent(data)
                      IN  IF ~parsed.ok THEN [acc EXCEPT !.logged = @ + 1]
                          ELSE IF parsed.content = <<>> THEN acc
                          ELSE [acc EXCEPT
                                  !.extracted = Append(@, parsed.content),
                                  !.frames =
                                      IF canEnqueue
                                      THEN Append(@, TextFrame(parsed.content))
                                      ELSE @,
                                  !.logged = IF canEnqueue THEN @ ELSE @ + 1]

\* The JSON text of a line, where the adapter looks for one: the line itself
\* (newline-JSON), what follows the prefix unless it is the [DONE] token (SSE).
JsonPayload(p, line) ==
    LET t == Trim(line)
    IN  IF p \in NdjsonProviders
        THEN [present |-> t # <<>>, text |-> line]
        ELSE IF t # <<>> /\ Head(t) = DATA_PREFIX /\ Tail(t) # <<DONE_TOKEN>>
        THEN [present |-> TRUE, text |-> Tail(t)]
        ELSE [present |-> FALSE, text |-> <<>>]

\* A line whose JSON text fails to parse.
Malformed(p, line) ==
    JsonPayload(p, line).present /\ ~ParseEvent(JsonPayload(p, line).text).ok

\* A catch block that falls back to the raw line as text instead of skipping it.
ProcessLineRawFallback(p, acc, line, canEnqueue) ==
    IF Malformed(p, line)
    THEN [acc EXCEPT
            !.fullContent = @ \o Trim(line),
            !.extracted = Append(@, Trim(line)),
            !.frames = IF canEnqueue
                       THEN Append(@, TextFrame(Trim(line))) ELSE @]
    ELSE IF p \in NdjsonProviders THEN NdjsonLine(acc, line, canEnqueue)
    ELSE SseLine(acc, line, canEnqueue)

\* A catch block that starts the accumulated text over.
ProcessLineResetting(p, acc, line, canEnqueue) ==
    IF Malformed(p, line)
    THEN [acc EXCEPT !.fullContent = <<>>, !.logged = @ + 1]
    ELSE IF p \in NdjsonProviders THEN NdjsonLine(acc, line, canEnqueue)
    ELSE SseLine(acc, line, canEnqueue)

ProcessLine(p, acc, line, canEnqueue) ==
    IF p \in NdjsonProviders THEN NdjsonLine(acc, line, canEnqueue)
    ELSE SseLine(acc, line, canEnqueue)

\* for (const line of lines) { ... }
RECURSIVE ProcessLines(_, _, _, _)
ProcessLines(p, acc, lines, canEnqueue) ==
    IF lines = <<>> THEN acc
    ELSE ProcessLines(p, ProcessLine(p, acc, Head(lines), canEnqueue),
                      Tail(lines), canEnqueue)

\* ------------------------------------------------------------------ state
VARIABLES
    pc,          \* where the call is: "idle", "fetch" (start awaits fetch),
                 \* "read" (start awaits reader.read()), "syncFetch", "done"
    provider,    \* the adapter called
    request,     \* [op, streaming]: createChat or continueChat, request.streaming
    config,      \* [apiKey]: whether config.apiKey is present
    result,      \* what the call gave its caller: "none", "stream", "response", "threw"
    thrown,      \* the error raised to the caller: "none", "config", "upstream"
    response,    \* the ChatResponse's assistant turn of a synchronous call
    fetches,     \* upstream chat requests issued
    failure,     \* the whole-call failure start() caught: "none", "network",
                 \* "status", "nobody", "read"
    body,        \* the bytes the upstream body holds
    upstream,    \* the bytes not read yet
    decoderPending, \* TextDecoder holds a lead byte
    buffer,      \* let buffer
    fullContent, \* let fullContent
    currentFormattedContent, \* let currentFormattedContent
    out,         \* every frame controller.enqueue accepted, in order
    queue,       \* the frames in the controller's queue, not read yet
    delivered,   \* the frames the consumer has read
    streamState, \* "none", "readable", "closed", "errored"
    closeRequested, \* controller.close() was called
    cancelled,   \* the consumer cancelled the outbound stream
    seenLines,   \* the complete lines handed to the for loop, in order
    logged,      \* diagnostics of the inner catch
    extracted,   \* the incremental texts extracted, in order
    \* two streaming calls in flight on one adapter instance
    instance,    \* the adapter instance both calls were made on (its name)
    calls,       \* per call: where it is, and the locals of its start()
    \* one call of formatContentAsMessageBinaryFormat
    content,     \* the argument
    document,    \* [returned, blocks]: the Document, once the call returned
    \* one call of createChat, continueChat or listModels, with its data
    call,        \* [op, provider, request, config]; op "none" before the call
    sent,        \* the upstream request the call issued, if it issued one
    answer,      \* what the upstream answered, if it has
    returned,    \* what the call gave its caller; kind "none" while it runs
    \* lookups in ProviderFactory
    lookups,     \* the outcomes of getProvider / getAvailableModels, in order
    \* one call of V0Provider
    v0call,      \* [op, request, config]; op "none" before the call
    clients,     \* the clientConfig of every createClient call, in order
    sdkCalls,    \* the calls made on client.chats, in order
    sdkAnswer,   \* what the SDK call resolved to, if it has
    v0returned,  \* what the call gave its caller; kind "none" while it runs
    \* requests in flight in the chat route, and the store behind it
    reqs,        \* per request: where POST is, its inputs and its locals
    ownerships,  \* the rows of chat_ownerships, in insertion order
    anonymousLogs, \* the rows of anonymous_chat_logs, in insertion order
    \* one request of the chat route, with its provider configuration
    resolution   \* [called, session, env, providerType, config, outcome]

vars == <<pc, provider, request, config, result, thrown, response, fetches,
          failure, body, upstream, decoderPending, buffer, fullContent,
          currentFormattedContent, out, queue, delivered, streamState,
          closeRequested, cancelled, seenLines, logged, extracted>>

callVars == <<provider, request, config>>
syncVars == <<response>>
loopVars == <<decoderPending, buffer, fullContent, currentFormattedContent,
              seenLines, logged, extracted>>
consumerVars == <<delivered, cancelled>>

pairVars == <<instance, calls>>
formatVars == <<content, document>>
adapterVars == <<call, sent, answer, returned>>
registryVars == <<lookups>>
clientVars == <<v0call, clients, sdkCalls, sdkAnswer, v0returned>>
routeVars == <<reqs, ownerships, anonymousLogs>>
configVars == <<resolution>>
boundaryVars == <<registryVars, clientVars, routeVars, configVars>>
otherVars == <<pairVars, formatVars, adapterVars, boundaryVars>>

NoTurn == [role |-> "none", content |-> <<>>, hasDocument |-> FALSE,
           experimental_content |-> <<>>]

\* The two calls of one adapter instance.
Calls == {1, 2}

\* A call not made yet: the locals of start() as their declarations leave them
\* (const decoder = new TextDecoder(), let buffer = "", let fullContent = "",
\* let currentFormattedContent = []), nothing enqueued, no chunk read.
NoCall ==
    [pc |-> "idle", upstream |-> <<>>, chunks |-> <<>>, failed |-> FALSE,
     decoderPending |-> FALSE, buffer |-> <<>>, fullContent |-> <<>>,
     currentFormattedContent |-> <<>>, out |-> <<>>]

PairIdle == instance = "none" /\ calls = [i \in Calls |-> NoCall]
NoDocument == [returned |-> FALSE, blocks |-> <<>>]
FormatIdle == content = <<>> /\ document = NoDocument
\* config.apiKey is undefined.
NoKey == "undefined"

\* config.baseUrl and config.modelName are missing or empty (both falsy
\* under ||).  A URL is the sequence of its parts, so that appending a path
\* is \o.
NoUrl == <<>>
NoModel == ""

NoAuthorization == [present |-> FALSE, scheme |-> "", credentials |-> ""]
NoRequest == [message |-> <<>>, hasMessages |-> FALSE, messages |-> <<>>,
              streaming |-> FALSE]
\* config.temperature or config.maxTokens is missing.  The numbers are
\* non-negative, temperatures in tenths.
NoNumber == -1

NotCalled == [op |-> "none", provider |-> "none", request |-> NoRequest,
              config |-> [apiKey |-> NoKey, baseUrl |-> NoUrl,
                          modelName |-> NoModel, temperature |-> NoNumber,
                          maxTokens |-> NoNumber]]
NothingSent == [issued |-> FALSE, path |-> "", url |-> <<>>, model |-> "",
                stream |-> FALSE, messages |-> <<>>,
                authorization |-> NoAuthorization,
                temperature |-> NoNumber, max_tokens |-> NoNumber]
NoAnswer == [kind |-> "none", ok |-> FALSE, status |-> "", statusText |-> "",
             errorText |-> "", content |-> <<>>, body |-> ""]
NothingReturned == [kind |-> "none", messages |-> <<>>, error |-> <<>>,
                    models |-> <<>>]

AdapterIdle ==
    /\ call = NotCalled
    /\ sent = NothingSent
    /\ answer = NoAnswer
    /\ returned = NothingReturned

\* No streaming or synchronous chat call made yet.
StreamIdle ==
    /\ pc = "idle"
    /\ provider = "none"
    /\ request = [op |-> "none", streaming |-> FALSE]
    /\ config = [apiKey |-> FALSE]
    /\ result = "none"
    /\ thrown = "none"
    /\ response = NoTurn
    /\ fetches = 0
    /\ failure = "none"
    /\ body = <<>>
    /\ upstream = <<>>
    /\ decoderPending = FALSE
    /\ buffer = <<>>
    /\ fullContent = <<>>
    /\ currentFormattedContent = <<>>
    /\ out = <<>>
    /\ queue = <<>>
    /\ delivered = <<>>
    /\ streamState = "none"
    /\ closeRequested = FALSE
    /\ cancelled = FALSE
    /\ seenLines = <<>>
    /\ logged = 0
    /\ extracted = <<>>

\* No lookup was made.
RegistryIdle == lookups = <<>>

\* request.chatId is missing or empty (both falsy under !).
NoChatId == ""

NoV0Request ==
    [message |-> "", chatId |-> NoChatId, streaming |-> FALSE,
     attachments |-> <<>>]
NoV0Call ==
    [op |-> "none", request |-> NoV0Request,
     config |-> [apiKey |-> NoKey, baseUrl |-> NoUrl]]
NoSdkAnswer == [kind |-> "none", id |-> "", demo |-> "", messages |-> <<>>]
NothingReturnedByV0 ==
    [kind |-> "none", error |-> <<>>, id |-> "", demo |-> "",
     messages |-> <<>>, models |-> <<>>]

\* No call of V0Provider was made.
ClientIdle ==
    /\ v0call = NoV0Call
    /\ clients = <<>>
    /\ sdkCalls = <<>>
    /\ sdkAnswer = NoSdkAnswer
    /\ v0returned = NothingReturnedByV0

\* The requests of a run.
Reqs == {1, 2}

\* auth() gives no session.
NoSession == ""

\* What the route hands the adapter: {message, chatId, attachments,
\* streaming}; it has no messages field.
NoProviderRequest ==
    [message |-> "", chatId |-> NoChatId, hasMessages |-> FALSE,
     messages |-> <<>>, streaming |-> FALSE]
NoInvocation == [op |-> "none", request |-> NoProviderRequest]
NoResult == [kind |-> "none", id |-> ""]
NoHttp == [status |-> 0, kind |-> "none", id |-> ""]
NoRouteRequest ==
    [pc |-> "idle", session |-> NoSession, message |-> "",
     chatId |-> NoChatId, streaming |-> FALSE, providerType |-> "none",
     invoked |-> NoInvocation, result |-> NoResult, http |-> NoHttp]

\* No request has arrived and the tables are empty.
RouteIdle ==
    /\ reqs = [r \in Reqs |-> NoRouteRequest]
    /\ ownerships = <<>>
    /\ anonymousLogs = <<>>

\* providerConfig = {}
EmptyConfig == [apiKey |-> NoKey, baseUrl |-> NoUrl, modelName |-> NoModel]
NoEnv == [V0_API_KEY |-> NoKey, V0_API_URL |-> NoUrl]
NotResolved ==
    [called |-> FALSE, session |-> NoSession, env |-> NoEnv,
     providerType |-> "none", config |-> EmptyConfig, outcome |-> "none"]

\* POST was not called.
ConfigIdle == resolution = NotResolved

BoundaryIdle == RegistryIdle /\ ClientIdle /\ RouteIdle /\ ConfigIdle

Init == StreamIdle /\ PairIdle /\ FormatIdle /\ AdapterIdle /\ BoundaryIdle

\* ReadableStreamDefaultControllerCanCloseOrEnqueue
CanEnqueue == streamState = "readable" /\ ~closeRequested

\* controller.error(e): a readable stream drops its queue and becomes
\* errored; on a stream that is closed or errored it does nothing.
StateAfterError == IF streamState = "readable" THEN "errored" ELSE streamState
QueueAfterError == IF streamState = "readable" THEN <<>> ELSE queue

\* createChat / continueChat up to the first await: the credential check of
\* the adapters that mandate one, then syncChat's fetch, or streamChat with
\* the synchronous part of start() (the metadata frame of OllamaProvider, then
\* the fetch).
CallChat(p, op, streaming, apiKey) ==
    /\ pc = "idle"
    /\ provider' = p
    /\ request' = [op |-> op, streaming |-> streaming]
    /\ config' = [apiKey |-> apiKey]
    /\ IF RequiresApiKey(p) /\ ~apiKey
       THEN /\ result' = "threw"
            /\ thrown' = "config"
            /\ pc' = "done"
            /\ UNCHANGED <<fetches, out, queue, streamState>>
       ELSE IF streaming
       THEN /\ result' = "stream"
            /\ streamState' = "readable"
            /\ out' = IF p \in NdjsonProviders THEN <<MetadataFrame>> ELSE <<>>
            /\ queue' = out'
            /\ fetches' = fetches + 1
            /\ pc' = "fetch"
            /\ UNCHANGED thrown
       ELSE /\ fetches' = fetches + 1
            /\ pc' = "syncFetch"
            /\ UNCHANGED <<result, thrown, out, queue, streamState>>
    /\ UNCHANGED <<response, failure, body, upstream, closeRequested>>
    /\ UNCHANGED loopVars
    /\ UNCHANGED consumerVars
    /\ UNCHANGED otherVars

\* A start() that answers a failed request with one more request.
StartFailsRetrying(why) ==
    /\ pc = "fetch"
    /\ fetches < 2
    /\ fetches' = fetches + 1
    /\ UNCHANGED <<pc, result, thrown, failure, body, upstream, out, queue,
                   streamState, closeRequested>>
    /\ UNCHANGED <<callVars, syncVars, loopVars, consumerVars>>
    /\ UNCHANGED otherVars

\* start(): a failure before the read loop is caught and handed to
\* controller.error.
StartFails(why) ==
    /\ pc = "fetch"
    /\ failure' = why
    /\ streamState' = StateAfterError
    /\ queue' = QueueAfterError
    /\ pc' = "done"
    /\ UNCHANGED <<result, thrown, fetches, body, upstream, out,
                   closeRequested>>
    /\ UNCHANGED <<callVars, syncVars, loopVars, consumerVars>>
    /\ UNCHANGED otherVars

\* await fetch(...) rejects.
FetchRejects == StartFails("network")

\* !response.ok
FetchNotOk == StartFails("status")

\* response.body is missing.
FetchNoBody == StartFails("nobody")

\* The response is ok and has a body: the loop issues its first read.
FetchBody(ls, terminated) ==
    /\ pc = "fetch"
    /\ body' = BodyOf(ls, terminated)
    /\ upstream' = body'
    /\ pc' = "read"
    /\ UNCHANGED <<result, thrown, fetches, failure, out, queue, streamState,
                   closeRequested>>
    /\ UNCHANGED <<callVars, syncVars, loopVars, consumerVars>>
    /\ UNCHANGED otherVars

FetchOk ==
    /\ pc = "fetch"
    /\ \E ls \in LineLists(provider), terminated \in BOOLEAN :
          FetchBody(ls, terminated)

\* One turn of the while loop: reader.read() gives the next k bytes; they are
\* decoded and appended to buffer, the complete lines are processed, the rest
\* is kept, and the next read is issued.
ReadBytes(k) ==
    /\ pc = "read"
    /\ k \in 1..Len(upstream)
    /\ LET decoded == Decode(decoderPending, SubSeq(upstream, 1, k))
           lines == SplitLines(buffer \o decoded.text)
           acc == ProcessLines(provider,
                               [NoProgress EXCEPT
                                  !.fullContent = fullContent,
                                  !.currentFormattedContent =
                                      currentFormattedContent],
                               Front(lines), CanEnqueue)
       IN  /\ decoderPending' = decoded.pending
           /\ buffer' = Last(lines)
           /\ seenLines' = seenLines \o Front(lines)
           /\ fullContent' = acc.fullContent
           /\ currentFormattedContent' = acc.currentFormattedContent
           /\ logged' = logged + acc.logged
           /\ extracted' = extracted \o acc.extracted
           /\ out' = out \o acc.frames
           /\ queue' = queue \o acc.frames
    /\ upstream' = SubSeq(upstream, k + 1, Len(upstream))
    /\ UNCHANGED <<pc, result, thrown, fetches, failure, body, streamState,
                   closeRequested>>
    /\ UNCHANGED <<callVars, syncVars, consumerVars>>
    /\ UNCHANGED otherVars

ReadChunk ==
    /\ pc = "read"
    /\ \E k \in 1..Len(upstream) : ReadBytes(k)

\* reader.read() gives done: OllamaProvider enqueues the [DONE] frame and
\* closes, the SSE adapters close.  On a stream that is no longer readable
\* enqueue and close throw a TypeError, which the outer catch hands to
\* controller.error, which does nothing there.
ReadDone ==
    /\ pc = "read"
    /\ upstream = <<>>
    /\ IF CanEnqueue
       THEN /\ out' = IF provider \in NdjsonProviders
                      THEN Append(out, DoneFrame) ELSE out
            /\ queue' = IF provider \in NdjsonProviders
                        THEN Append(queue, DoneFrame) ELSE queue
            /\ closeRequested' = TRUE
            /\ streamState' = IF queue' = <<>> THEN "closed" ELSE "readable"
       ELSE UNCHANGED <<out, queue, closeRequested, streamState>>
    /\ pc' = "done"
    /\ UNCHANGED <<result, thrown, fetches, failure, body, upstream>>
    /\ UNCHANGED <<callVars, syncVars, loopVars, consumerVars>>
    /\ UNCHANGED otherVars

\* reader.read() rejects: the outer catch calls controller.error.
ReadRejects ==
    /\ pc = "read"
    /\ failure' = "read"
    /\ streamState' = StateAfterError
    /\ queue' = QueueAfterError
    /\ pc' = "done"
    /\ UNCHANGED <<result, thrown, fetches, body, upstream, out,
                   closeRequested>>
    /\ UNCHANGED <<callVars, syncVars, loopVars, consumerVars>>
    /\ UNCHANGED otherVars

\* The consumer of the outbound stream reads the next frame; the read that
\* empties the queue of a stream asked to close closes it.
ConsumerRead ==
    /\ streamState = "readable"
    /\ queue # <<>>
    /\ delivered' = Append(delivered, Head(queue))
    /\ queue' = Tail(queue)
    /\ streamState' = IF closeRequested /\ queue' = <<>>
                      THEN "closed" ELSE "readable"
    /\ UNCHANGED <<pc, result, thrown, fetches, failure, body, upstream,
                   out, closeRequested, cancelled>>
    /\ UNCHANGED <<callVars, syncVars, loopVars>>
    /\ UNCHANGED otherVars

\* The consumer cancels the outbound stream: the queue is dropped and the
\* stream closed.  The underlying source passed to new ReadableStream has
\* only start(): no cancel() is there to be told.
ConsumerCancel ==
    /\ streamState = "readable"
    /\ cancelled' = TRUE
    /\ queue' = <<>>
    /\ streamState' = "closed"
    /\ UNCHANGED <<pc, result, thrown, fetches, failure, body, upstream,
                   out, closeRequested, delivered>>
    /\ UNCHANGED <<callVars, syncVars, loopVars>>
    /\ UNCHANGED otherVars

\* ------------------------------------------------------- synchronous path
\* The assistant text a line list carries: the contents of its event lines.
AssistantText(p, ls) == Concat(ProcessLines(p, NoProgress, ls, TRUE).extracted)

NdjsonTexts == {AssistantText("ollama", ls) : ls \in NdjsonLineLists}
SseTexts == {AssistantText("lmstudio", ls) : ls \in SseLineLists}

\* The assistant texts an upstream payload of the synchronous path carries.
AssistantTexts(p) == IF p \in NdjsonProviders THEN NdjsonTexts ELSE SseTexts

\* The assistant turn syncChat returns for the assistant text of the upstream
\* payload: OllamaProvider adds experimental_content, the SSE adapters do not.
SyncAssistantTurn(p, text) ==
    [role |-> "assistant", content |-> text,
     hasDocument |-> p \in NdjsonProviders,
     experimental_content |->
         IF p \in NdjsonProviders
         THEN formatContentAsMessageBinaryFormat(text) ELSE <<>>]

\* await fetch(...) rejects, or !response.ok: syncChat throws.
SyncFails ==
    /\ pc = "syncFetch"
    /\ result' = "threw"
    /\ thrown' = "upstream"
    /\ pc' = "done"
    /\ UNCHANGED <<response, fetches, failure, body, upstream, out,
                   queue, streamState, closeRequested>>
    /\ UNCHANGED <<callVars, loopVars, consumerVars>>
    /\ UNCHANGED otherVars

\* The response is ok: the ChatResponse is built from the payload.
SyncPayload(text) ==
    /\ pc = "syncFetch"
    /\ result' = "response"
    /\ response' = SyncAssistantTurn(provider, text)
    /\ pc' = "done"
    /\ UNCHANGED <<thrown, fetches, failure, body, upstream, out,
                   queue, streamState, closeRequested>>
    /\ UNCHANGED <<callVars, loopVars, consumerVars>>
    /\ UNCHANGED otherVars

SyncOk ==
    /\ pc = "syncFetch"
    /\ \E text \in AssistantTexts(provider) : SyncPayload(text)

Next ==
    \/ \E p \in Providers, op \in {"createChat", "continueChat"},
          streaming \in BOOLEAN, apiKey \in BOOLEAN :
          CallChat(p, op, streaming, apiKey)
    \/ FetchRejects
    \/ FetchNotOk
    \/ FetchNoBody
    \/ FetchOk
    \/ ReadChunk
    \/ ReadDone
    \/ ReadRejects
    \/ ConsumerRead
    \/ ConsumerCancel
    \/ SyncFails
    \/ SyncOk

Spec == Init /\ [][Next]_vars

\* ----------------------------------------------------------------- claims
RECURSIVE SelectType(_, _)
SelectType(frames, types) ==
    IF frames = <<>> THEN <<>>
    ELSE IF Head(frames).type \in types
         THEN <<Head(frames)>> \o SelectType(Tail(frames), types)
         ELSE SelectType(Tail(frames), types)

\* The frames that carry assistant content, whatever their shape.
ContentFrames(frames) == SelectType(frames, {"delta", "text"})

\* A streaming call whose start() has run to its end.
StreamEnded == result = "stream" /\ pc = "done"

\* A streaming call that ended with the upstream body exhausted.
StreamCompleted == StreamEnded /\ failure = "none"

\* C1: in every streaming call of ollama, ollama-cloud, lmstudio and llama,
\* whatever the upstream did, the outbound sequence holds exactly one metadata
\* frame and it comes before every content frame.
C1_OneMetadataFirst ==
    StreamEnded =>
        /\ Len(SelectType(out, {"metadata"})) = 1
        /\ out[1] = MetadataFrame

\* C2: a streaming call the consumer did not cancel ends with exactly one
\* terminal event, the done frame or the error, never both, and no frame
\* follows the done frame.
C2_OneTerminalLast ==
    (StreamEnded /\ ~cancelled) =>
        LET dones == Len(SelectType(out, {"done"}))
            errors == IF streamState = "errored" THEN 1 ELSE 0
        IN  /\ dones + errors = 1
            /\ dones = 1 => Last(out) = DoneFrame

\* C3: while the consumer has not cancelled, the k-th content frame of a
\* streaming call is the delta frame carrying ContentFormatter of the
\* concatenation of the first k incremental texts extracted.
C3_DeltaCarriesWholeDocument ==
    ~cancelled =>
        LET frames == ContentFrames(out)
        IN  \A k \in 1..Len(frames) :
                frames[k] =
                    DeltaFrame(formatContentAsMessageBinaryFormat(
                                   Concat(SubSeq(extracted, 1, k))))

\* The assistant text the whole upstream body carries: the contents of all its
\* lines, the last one included when it is not newline-terminated.
BodyText == AssistantText(provider, SplitLines(Decode(FALSE, body).text))

\* C4: a streaming call whose upstream delivered a non-empty assistant text T
\* to the end ends with a last delta whose Document is the Document of the
\* assistant turn the synchronous call returns for T.
C4_StreamMatchesSync ==
    (StreamCompleted /\ ~cancelled /\ BodyText # <<>>) =>
        LET deltas == SelectType(out, {"delta"})
            turn == SyncAssistantTurn(provider, BodyText)
        IN  /\ deltas # <<>>
            /\ turn.hasDocument
            /\ Last(deltas).delta = turn.experimental_content

\* The bytes read so far, and what one decode call and one split make of them.
Consumed == SubSeq(body, 1, Len(body) - Len(upstream))
OneChunk == Decode(FALSE, Consumed)
OneChunkLines == SplitLines(OneChunk.text)
OneChunkProgress ==
    ProcessLines(provider, NoProgress, Front(OneChunkLines), TRUE)

\* C5: however the bytes read so far were cut into chunks, the loop has
\* extracted the complete lines (and kept the rest, and enqueued the frames)
\* that reading the same bytes as one chunk gives.
C5_SplitIndependence ==
    (result = "stream" /\ pc \in {"read", "done"}) =>
        /\ seenLines = Front(OneChunkLines)
        /\ buffer = Last(OneChunkLines)
        /\ decoderPending = OneChunk.pending
        /\ extracted = OneChunkProgress.extracted
        /\ ~cancelled => ContentFrames(out) = OneChunkProgress.frames

\* A read boundary fell inside a two-byte character, inside a line, after a
\* line was complete.
C5_Witness ==
    /\ pc = "read"
    /\ decoderPending
    /\ buffer # <<>>
    /\ seenLines # <<>>

\* The locals of the loop, as the for loop's body finds them.
LoopProgress ==
    [NoProgress EXCEPT !.fullContent = fullContent,
                       !.currentFormattedContent = currentFormattedContent]

\* The incremental texts of the lines that are events with content, in order.
RECURSIVE EventContents(_, _)
EventContents(p, lines) ==
    IF lines = <<>> THEN <<>>
    ELSE LET json == JsonPayload(p, Head(lines))
             parsed == ParseEvent(json.text)
         IN  IF json.present /\ parsed.ok /\ parsed.content # <<>>
             THEN <<parsed.content>> \o EventContents(p, Tail(lines))
             ELSE EventContents(p, Tail(lines))

RECURSIVE CountMalformed(_, _)
CountMalformed(p, lines) ==
    IF lines = <<>> THEN 0
    ELSE (IF Malformed(p, Head(lines)) THEN 1 ELSE 0)
         + CountMalformed(p, Tail(lines))

C7_FailureKeepsEvents ==
    (result = "stream" /\ failure # "none" /\ ~cancelled) =>
        /\ streamState = "errored"
        /\ SelectType(out, {"done"}) = <<>>
        /\ out = delivered \o queue

\* C8: createChat and continueChat of ollama-cloud and llama, called without
\* apiKey, streaming or not, raise a configuration error; no upstream request
\* is issued and no stream is made.
C8_MissingCredentialFailsFast ==
    (pc # "idle" /\ provider \in {"ollama-cloud", "llama"} /\ ~config.apiKey) =>
        /\ pc = "done"
        /\ result = "threw"
        /\ thrown = "config"
        /\ fetches = 0
        /\ streamState = "none"
        /\ out = <<>>

C8_Witness ==
    /\ provider = "ollama-cloud"
    /\ request = [op |-> "continueChat", streaming |-> TRUE]
    /\ ~config.apiKey
    /\ result = "threw"
    /\ thrown = "config"

\* A step in which the loop issues reader.read(): the first read, when the
\* fetch has answered, and the read that follows every chunk.
IssuesRead == pc' = "read" /\ (pc = "fetch" \/ upstream' # upstream)

\* C9: once the consumer has cancelled the outbound stream, the adapter issues
\* no further read of the upstream body.
C9_NoReadAfterCancel == [][cancelled => ~IssuesRead]_vars

\* C10: after a chunk, the loop issues its next read of the upstream body only
\* when the consumer has taken every frame enqueued so far.
C10_ReadOnlyOnDemand ==
    [][(pc = "read" /\ IssuesRead) => queue' = <<>>]_vars

\* ------------------------------------- two calls on one adapter instance
\* Most bytes the upstream body of one of two concurrent calls holds.
PairBytes == 5

NdjsonPairLists == {ls \in NdjsonLineLists : BytesOf(ls) <= PairBytes}
SsePairLists == {ls \in SseLineLists : BytesOf(ls) <= PairBytes}
PairLists(p) == IF p \in NdjsonProviders THEN NdjsonPairLists ELSE SsePairLists

\* The locals a turn of call i's loop reads and writes: decoder, buffer,
\* fullContent and currentFormattedContent are declared inside start(), one
\* set per call; the adapter classes declare no field but name.
LocalsOfInstance(cs, i) == cs[1]
LocalsOf(cs, i) == cs[i]

\* The frames start() enqueues before its fetch.
StartFrames(p) == IF p \in NdjsonProviders THEN <<MetadataFrame>> ELSE <<>>

\* The frames enqueued when reader.read() gives done.
EndFrames(p) == IF p \in NdjsonProviders THEN <<DoneFrame>> ELSE <<>>

\* One turn of the while loop of a call with locals from, on a chunk.
ReadTurn(p, c, from, chunk) ==
    LET decoded == Decode(from.decoderPending, chunk)
        lines == SplitLines(from.buffer \o decoded.text)
        acc == ProcessLines(p,
                            [NoProgress EXCEPT
                               !.fullContent = from.fullContent,
                               !.currentFormattedContent =
                                   from.currentFormattedContent],
                            Front(lines), TRUE)
    IN  [c EXCEPT !.decoderPending = decoded.pending,
                  !.buffer = Last(lines),
                  !.fullContent = acc.fullContent,
                  !.currentFormattedContent = acc.currentFormattedContent,
                  !.out = @ \o acc.frames,
                  !.chunks = Append(@, chunk),
                  !.upstream = SubSeq(@, Len(chunk) + 1, Len(@))]

\* The adapter instance the two calls are made on.
PairInit ==
    /\ StreamIdle /\ FormatIdle /\ AdapterIdle /\ BoundaryIdle
    /\ instance \in Providers
    /\ calls = [i \in Calls |-> NoCall]

\* streamChat: the stream is made and start() runs up to its await fetch.
PairCall(i) ==
    /\ calls[i].pc = "idle"
    /\ calls' = [calls EXCEPT ![i].pc = "fetch",
                              ![i].out = StartFrames(instance)]
    /\ UNCHANGED <<instance, vars, formatVars, adapterVars, boundaryVars>>

\* The fetch answers with a body: the loop issues its first read.
PairFetchBody(i, ls, terminated) ==
    /\ calls[i].pc = "fetch"
    /\ calls' = [calls EXCEPT ![i].pc = "read",
                              ![i].upstream = BodyOf(ls, terminated)]
    /\ UNCHANGED <<instance, vars, formatVars, adapterVars, boundaryVars>>

PairFetchOk(i) ==
    /\ calls[i].pc = "fetch"
    /\ \E ls \in PairLists(instance), terminated \in BOOLEAN :
          PairFetchBody(i, ls, terminated)

\* reader.read() gives the next k bytes.
PairReadBytes(i, k) ==
    /\ calls[i].pc = "read"
    /\ k \in 1..Len(calls[i].upstream)
    /\ calls' = [calls EXCEPT
                   ![i] = ReadTurn(instance, calls[i], LocalsOf(calls, i),
                                   SubSeq(calls[i].upstream, 1, k))]
    /\ UNCHANGED <<instance, vars, formatVars, adapterVars, boundaryVars>>

PairReadChunk(i) ==
    /\ calls[i].pc = "read"
    /\ \E k \in 1..Len(calls[i].upstream) : PairReadBytes(i, k)

\* reader.read() gives done.
PairReadDone(i) ==
    /\ calls[i].pc = "read"
    /\ calls[i].upstream = <<>>
    /\ calls' = [calls EXCEPT ![i].pc = "done",
                              ![i].out = @ \o EndFrames(instance)]
    /\ UNCHANGED <<instance, vars, formatVars, adapterVars, boundaryVars>>

\* The fetch rejects, or answers without success or without a body: the
\* outer catch calls controller.error.
PairFails(i) ==
    /\ calls[i].pc = "fetch"
    /\ calls' = [calls EXCEPT ![i].pc = "done", ![i].failed = TRUE]
    /\ UNCHANGED <<instance, vars, formatVars, adapterVars, boundaryVars>>

PairNext ==
    \E i \in Calls :
        \/ PairCall(i)
        \/ PairFetchOk(i)
        \/ PairReadChunk(i)
        \/ PairReadDone(i)
        \/ PairFails(i)

PairSpec == PairInit /\ [][PairNext]_<<vars, otherVars>>

\* A call run alone on a sequence of chunks: its locals and its frames.
RECURSIVE RunAlone(_, _, _)
RunAlone(p, c, chunks) ==
    IF chunks = <<>> THEN c
    ELSE RunAlone(p, ReadTurn(p, c, c, Head(chunks)), Tail(chunks))

\* C11: whatever the interleaving of two streaming calls on one adapter
\* instance, each call's buffer, decoder, accumulator and outbound frames are
\* those of the same call run alone on the chunks it has read.
C11_CallsIndependent ==
    \A i \in Calls :
        calls[i].pc \in {"read", "done"} =>
            LET alone == RunAlone(instance,
                                  [NoCall EXCEPT !.out = StartFrames(instance)],
                                  calls[i].chunks)
                ended == calls[i].pc = "done" /\ ~calls[i].failed
            IN  /\ calls[i].buffer = alone.buffer
                /\ calls[i].decoderPending = alone.decoderPending
                /\ calls[i].fullContent = alone.fullContent
                /\ calls[i].currentFormattedContent
                       = alone.currentFormattedContent
                /\ calls[i].out =
                       alone.out \o (IF ended THEN EndFrames(instance)
                                     ELSE <<>>)

\* Both calls are between two reads, call 1 holding an incomplete line, call 2
\* having completed one and enqueued its frame.
C11_Witness ==
    /\ calls[1].pc = "read" /\ calls[2].pc = "read"
    /\ calls[1].buffer # <<>>
    /\ calls[2].buffer = <<>>
    /\ calls[2].chunks # <<>>
    /\ ContentFrames(calls[2].out) # <<>>
    /\ ContentFrames(calls[1].out) = <<>>

\* --------------------------------- formatContentAsMessageBinaryFormat alone
\* Longest text given to the formatter.
MaxText == 5

\* The characters of a text: letters, the space and the newline.
TextChars == {"a", "b", " ", LF}
Texts == UNION {[1..n -> TextChars] : n \in 0..MaxText}

FormatInit ==
    /\ StreamIdle /\ PairIdle /\ AdapterIdle /\ BoundaryIdle
    /\ content \in Texts
    /\ document = NoDocument

\* formatContentAsMessageBinaryFormat(content) returns.
FormatContent ==
    /\ ~document.returned
    /\ document' = [returned |-> TRUE,
                    blocks |-> formatContentAsMessageBinaryFormat(content)]
    /\ UNCHANGED <<content, vars, pairVars, adapterVars, boundaryVars>>

FormatNext == FormatContent

FormatSpec == FormatInit /\ [][FormatNext]_<<vars, otherVars>>

\* The text with its white space removed.
RECURSIVE Squeeze(_)
Squeeze(s) ==
    IF s = <<>> THEN <<>>
    ELSE IF Head(s) \in WhiteSpace THEN Squeeze(Tail(s))
    ELSE <<Head(s)>> \o Squeeze(Tail(s))

\* The payloads of the blocks of a Document, in order.
Payloads(doc) == [i \in 1..Len(doc) |-> doc[i][2]]

\* Two consecutive newlines somewhere in the text.
HasBlankLine(s) == \E i \in 1..Len(s) - 1 : s[i] = LF /\ s[i + 1] = LF

\* C12: the Document returned for a text T holds, in order, one block
\* [0, trim(p)] per piece p of T between blank-line separators that is not
\* white space only, and nothing else: no payload is empty or untrimmed, no
\* character of T other than white space is lost or moved, the Document is
\* empty exactly when T is white space only, and a non-blank T without a blank
\* line gives the one block [0, trim(T)].
C12_OneBlockPerParagraph ==
    document.returned =>
        LET pieces == SelectNonBlank(SplitParagraphs(content))
            blocks == document.blocks
        IN  /\ Len(blocks) = Len(pieces)
            /\ \A i \in 1..Len(pieces) : blocks[i] = <<0, Trim(pieces[i])>>
            /\ \A i \in 1..Len(blocks) :
                   /\ blocks[i][2] # <<>>
                   /\ blocks[i][2] = Trim(blocks[i][2])
                   /\ ~HasBlankLine(blocks[i][2])
            /\ Squeeze(Concat(Payloads(blocks))) = Squeeze(content)
            /\ (blocks = <<>>) <=> (Trim(content) = <<>>)
            /\ (Trim(content) # <<>> /\ ~HasBlankLine(content)) =>
                   blocks = << <<0, Trim(content)>> >>

\* A text of two paragraphs with white space before the first or after the
\* second.
C12_Witness ==
    /\ document.returned
    /\ Len(document.blocks) = 2
    /\ Len(SplitParagraphs(content)) = 2
    /\ Trim(content) # content

\* ------------------------- createChat, continueChat, listModels with data
\* Most prior turns a request holds.
MaxTurns == 2

\* Message: role and content.
Roles == {"user", "assistant"}
Contents == {<<"a">>, <<"b">>}
Turns == [role : Roles, content : Contents]
TurnLists == UNION {[1..n -> Turns] : n \in 0..MaxTurns}

\* ChatRequest: message, messages (optional), streaming.
Requests ==
    {[message |-> <<"b", "a">>, hasMessages |-> TRUE, messages |-> ts,
      streaming |-> st] : ts \in TurnLists, st \in BOOLEAN}
    \cup {[message |-> <<"b", "a">>, hasMessages |-> FALSE,
           messages |-> <<>>, streaming |-> st] : st \in BOOLEAN}

\* ProviderConfig: apiKey (optional).
Configs ==
    [apiKey : {NoKey, "sk-1", "sk-2"},
     baseUrl : {NoUrl, <<"http://host:8080">>},
     modelName : {NoModel, "custom-model"},
     temperature : {NoNumber, 0, 5},
     maxTokens : {NoNumber, 0, 100}]

\* The messages of the upstream request when request.messages is ignored.
UpstreamMessagesNewOnly(op, req) ==
    <<[role |-> "user", content |-> req.message]>>

\* const messages = [...(request.messages || []).map(...), {role: "user",
\* content: request.message}] in continueChat; the user turn alone in
\* createChat.
UpstreamMessages(op, req) ==
    LET prior == IF op = "continueChat" /\ req.hasMessages
                 THEN req.messages ELSE <<>>
    IN  [i \in 1..Len(prior) |->
            [role |-> prior[i].role, content |-> prior[i].content]]
        \o <<[role |-> "user", content |-> req.message]>>

\* headers.Authorization of the chat request: OllamaProvider sets it under
\* if (config.apiKey), LlamaProvider always (apiKey was checked), and
\* LMStudioProvider sends Content-Type only.
Authorization(p, cfg) ==
    IF p = "llama" \/ (p \in NdjsonProviders /\ cfg.apiKey # NoKey)
    THEN [present |-> TRUE, scheme |-> "Bearer", credentials |-> cfg.apiKey]
    ELSE NoAuthorization

\* A cloud variant that always goes to its own host.
CloudConfigFixedUrl(cfg) == [cfg EXCEPT !.baseUrl = <<"https://ollama.com">>]

\* OllamaCloudProvider: const cloudConfig = {...config, baseUrl:
\* config.baseUrl || "https://ollama.com"}, handed to the inherited method.
CloudConfig(cfg) ==
    [cfg EXCEPT !.baseUrl = IF @ # NoUrl THEN @ ELSE <<"https://ollama.com">>]

\* The config the methods of the base classes see.
ConfigSeen(p, cfg) == IF p = "ollama-cloud" THEN CloudConfig(cfg) ELSE cfg

\* const baseUrl = config.baseUrl || <default>.  LlamaProvider's default is
\* the whole endpoint, "https://api.llama-api.com/v1/chat/completions".
baseUrl(p, cfg) ==
    LET seen == ConfigSeen(p, cfg)
    IN  IF seen.baseUrl # NoUrl THEN seen.baseUrl
        ELSE IF p \in NdjsonProviders THEN <<"http://localhost:11434">>
        ELSE IF p = "lmstudio" THEN <<"http://localhost:1234">>
        ELSE <<"https://api.llama-api.com", "/v1/chat/completions">>

\* The URL the chat request is fetched from: `${baseUrl}/api/chat`,
\* `${baseUrl}/v1/chat/completions`, and baseUrl as it is in LlamaProvider.
ChatUrl(p, cfg) ==
    IF p \in NdjsonProviders THEN baseUrl(p, cfg) \o <<"/api/chat">>
    ELSE IF p = "lmstudio" THEN baseUrl(p, cfg) \o <<"/v1/chat/completions">>
    ELSE baseUrl(p, cfg)

\* The URL of the model-listing request: `${baseUrl}/api/tags`,
\* `${baseUrl}/v1/models`.
ModelsUrl(p, cfg) ==
    IF p \in NdjsonProviders THEN baseUrl(p, cfg) \o <<"/api/tags">>
    ELSE baseUrl(p, cfg) \o <<"/v1/models">>

\* const model = config.modelName || <default>
ModelName(p, cfg) ==
    IF cfg.modelName # NoModel THEN cfg.modelName
    ELSE IF p \in NdjsonProviders THEN "llama3.2"
    ELSE IF p = "lmstudio" THEN "local-model"
    ELSE "llama3.2-1b"

\* 0.7, in tenths, and 2000: the sampling defaults of the SSE adapters.
DefaultTemperature == 7
DefaultMaxTokens == 2000

\* temperature of the request body: config.temperature in OllamaProvider
\* (options.temperature), config.temperature || 0.7 in LMStudioProvider and
\* LlamaProvider; || takes the default for 0 as for a missing key.
Temperature(p, cfg) ==
    IF p \in NdjsonProviders THEN cfg.temperature
    ELSE IF cfg.temperature \notin {NoNumber, 0} THEN cfg.temperature
    ELSE DefaultTemperature

\* max_tokens: config.maxTokens || 2000 (options.num_predict:
\* config.maxTokens in OllamaProvider).
MaxTokens(p, cfg) ==
    IF p \in NdjsonProviders THEN cfg.maxTokens
    ELSE IF cfg.maxTokens \notin {NoNumber, 0} THEN cfg.maxTokens
    ELSE DefaultMaxTokens

\* The upstream request of a chat call.
ChatFetch(op, p, req, cfg) ==
    [issued |-> TRUE, path |-> "chat", url |-> ChatUrl(p, cfg),
     model |-> ModelName(p, cfg), stream |-> req.streaming,
     messages |-> UpstreamMessages(op, req),
     authorization |-> Authorization(p, cfg),
     temperature |-> Temperature(p, cfg),
     max_tokens |-> MaxTokens(p, cfg)]

\* The upstream request of listModels.
ModelsFetch(p, cfg) ==
    [NothingSent EXCEPT
       !.issued = TRUE, !.path = "models", !.url = ModelsUrl(p, cfg),
       !.authorization = IF p \in NdjsonProviders
                         THEN Authorization(p, cfg) ELSE NoAuthorization]

\* createChat / continueChat up to the first await: the credential check,
\* the message list, then streamChat (whose start() issues the fetch as the
\* stream is constructed) or syncChat's fetch.
Chat(op, p, req, cfg) ==
    /\ call.op = "none"
    /\ call' = [op |-> op, provider |-> p, request |-> req, config |-> cfg]
    /\ IF RequiresApiKey(p) /\ cfg.apiKey = NoKey
       THEN /\ returned' = [NothingReturned EXCEPT
                              !.kind = "threw", !.error = <<"API key">>]
            /\ UNCHANGED sent
       ELSE /\ sent' = ChatFetch(op, p, req, cfg)
            /\ returned' = IF req.streaming
                           THEN [NothingReturned EXCEPT !.kind = "stream"]
                           ELSE NothingReturned
    /\ UNCHANGED <<answer, vars, pairVars, formatVars, boundaryVars>>

createChat ==
    /\ call.op = "none"
    /\ \E p \in Providers, req \in Requests, cfg \in Configs :
          Chat("createChat", p, req, cfg)

continueChat ==
    /\ call.op = "none"
    /\ \E p \in Providers, req \in Requests, cfg \in Configs :
          Chat("continueChat", p, req, cfg)

SyncPending ==
    /\ call.op \in {"createChat", "continueChat"}
    /\ sent.issued
    /\ returned.kind = "none"

\* await fetch(...) rejects: syncChat has no catch.
syncChatRejects ==
    /\ SyncPending
    /\ answer' = [NoAnswer EXCEPT !.kind = "rejected"]
    /\ returned' = [NothingReturned EXCEPT
                      !.kind = "threw", !.error = <<"fetch failed">>]
    /\ UNCHANGED <<call, sent, vars, pairVars, formatVars, boundaryVars>>

\* The statuses and bodies of an upstream response that is not ok.
Statuses ==
    {[status |-> "404", statusText |-> "Not Found"],
     [status |-> "500", statusText |-> "Internal Server Error"]}
ErrorTexts == {"model not found", "out of memory"}

\* The Error syncChat throws under !response.ok: its message, part by part.
SyncError(p, st, errorText) ==
    IF p \in NdjsonProviders
    THEN <<"Ollama API error: ", st.status, " ", st.statusText, " - ",
           errorText>>
    ELSE IF p = "llama"
    THEN <<"Llama API error: ", st.status, " ", st.statusText, " - ",
           errorText>>
    ELSE <<"LM Studio API error: ", st.statusText>>

syncChatNotOk(st, errorText) ==
    /\ SyncPending
    /\ answer' = [NoAnswer EXCEPT
                    !.kind = "response", !.status = st.status,
                    !.statusText = st.statusText, !.errorText = errorText]
    /\ returned' = [NothingReturned EXCEPT
                      !.kind = "threw",
                      !.error = SyncError(call.provider, st, errorText)]
    /\ UNCHANGED <<call, sent, vars, pairVars, formatVars, boundaryVars>>

syncChatFails ==
    /\ SyncPending
    /\ \E st \in Statuses, errorText \in ErrorTexts :
          syncChatNotOk(st, errorText)

\* `msg-${idx}`
MsgId(idx) == <<"msg-", idx>>

\* Identifiers counted from one.
ChatResponseMessagesFromOne(p, messages, text) ==
    [i \in 1..Len(messages) |->
        [id |-> MsgId(i), role |-> messages[i].role,
         content |-> messages[i].content]]
    \o <<[id |-> MsgId(Len(messages) + 1), role |-> "assistant",
          content |-> text]>>

\* ChatResponse.messages: messages.map((msg, idx) => ...) followed by the
\* assistant turn, to which OllamaProvider adds experimental_content.
ChatResponseMessages(p, messages, text) ==
    [i \in 1..Len(messages) |->
        [id |-> MsgId(i - 1), role |-> messages[i].role,
         content |-> messages[i].content]]
    \o <<IF p \in NdjsonProviders
         THEN [id |-> MsgId(Len(messages)), role |-> "assistant",
               content |-> text,
               experimental_content |->
                   formatContentAsMessageBinaryFormat(text)]
         ELSE [id |-> MsgId(Len(messages)), role |-> "assistant",
               content |-> text]>>

\* The assistant texts of the upstream payload (data.message.content,
\* data.choices[0].message.content).
Replies == {<<"a">>, <<"a", LF, LF, "b">>, <<>>}

syncChatPayload(text) ==
    /\ SyncPending
    /\ answer' = [NoAnswer EXCEPT
                    !.kind = "response", !.ok = TRUE, !.status = "200",
                    !.statusText = "OK", !.content = text]
    /\ returned' = [NothingReturned EXCEPT
                      !.kind = "response",
                      !.messages = ChatResponseMessages(call.provider,
                                                        sent.messages, text)]
    /\ UNCHANGED <<call, sent, vars, pairVars, formatVars, boundaryVars>>

syncChatOk ==
    /\ SyncPending
    /\ \E text \in Replies : syncChatPayload(text)

\* The adapters behind AIProvider.listModels: those above and the v0 one.
ModelProviders == Providers \cup {"v0"}

\* The list returned from the catch block, or the fixed list of the adapters
\* that ask no upstream.
FallbackModels(p) ==
    IF p \in NdjsonProviders
    THEN <<"llama3.2", "llama3.1", "mistral", "codellama">>
    ELSE IF p = "lmstudio" THEN <<"local-model">>
    ELSE IF p = "llama"
    THEN <<"llama3.2-1b", "llama3.2-3b", "llama3.1-8b", "llama3.1-70b",
           "llama3.1-405b">>
    ELSE <<"v0-default">>

\* The model names an upstream lists.
UpstreamModels == <<"m1", "m2">>

\* What the model-listing request is answered with: response.ok, and a body
\* that is no JSON ("unparsable"), a JSON object without the list ("object"),
\* or one with it ("list").
ModelsAnswers == [ok : BOOLEAN, body : {"unparsable", "object", "list"}]

\* A catch block that returns an empty list.
ModelsFromAnswerNoFallback(p, a) ==
    IF a.ok /\ a.body = "list" THEN UpstreamModels ELSE <<>>

\* What listModels makes of the answer.  OllamaProvider throws under
\* !response.ok, and response.json() throws on a body that is no JSON; the
\* catch returns the fallback.  LMStudioProvider does not look at response.ok.
\* data.models?.map(...) || [] gives the empty list when the field is missing.
ModelsFromAnswer(p, a) ==
    IF p \in NdjsonProviders /\ ~a.ok THEN FallbackModels(p)
    ELSE IF a.body = "unparsable" THEN FallbackModels(p)
    ELSE IF a.body = "list" THEN UpstreamModels
    ELSE <<>>

\* listModels up to its await: LlamaProvider and V0Provider return their list,
\* the others issue the request (OllamaProvider with the bearer credential
\* when config.apiKey is set).
ListModels(p, cfg) ==
    /\ call.op = "none"
    /\ call' = [op |-> "listModels", provider |-> p, request |-> NoRequest,
                config |-> cfg]
    /\ IF p \in {"llama", "v0"}
       THEN /\ returned' = [NothingReturned EXCEPT
                              !.kind = "models",
                              !.models = FallbackModels(p)]
            /\ UNCHANGED sent
       ELSE /\ sent' = ModelsFetch(p, cfg)
            /\ UNCHANGED returned
    /\ UNCHANGED <<answer, vars, pairVars, formatVars, boundaryVars>>

listModels ==
    /\ call.op = "none"
    /\ \E p \in ModelProviders, cfg \in Configs : ListModels(p, cfg)

ModelsPending ==
    /\ call.op = "listModels"
    /\ sent.issued
    /\ returned.kind = "none"

\* await fetch(...) rejects: the catch returns the fallback.
listModelsRejects ==
    /\ ModelsPending
    /\ answer' = [NoAnswer EXCEPT !.kind = "rejected"]
    /\ returned' = [NothingReturned EXCEPT
                      !.kind = "models",
                      !.models = FallbackModels(call.provider)]
    /\ UNCHANGED <<call, sent, vars, pairVars, formatVars, boundaryVars>>

ListModelsAnswer(a) ==
    /\ ModelsPending
    /\ answer' = [NoAnswer EXCEPT
                    !.kind = "response", !.ok = a.ok, !.body = a.body]
    /\ returned' = [NothingReturned EXCEPT
                      !.kind = "models",
                      !.models = ModelsFromAnswer(call.provider, a)]
    /\ UNCHANGED <<call, sent, vars, pairVars, formatVars, boundaryVars>>

listModelsAnswered ==
    /\ ModelsPending
    /\ \E a \in ModelsAnswers : ListModelsAnswer(a)

AdapterInit ==
    StreamIdle /\ PairIdle /\ FormatIdle /\ AdapterIdle /\ BoundaryIdle

AdapterNext ==
    \/ createChat
    \/ continueChat
    \/ syncChatRejects
    \/ syncChatFails
    \/ syncChatOk
    \/ listModels
    \/ listModelsRejects
    \/ listModelsAnswered

AdapterSpec == AdapterInit /\ [][AdapterNext]_<<vars, otherVars>>

\* ------------------------------------------------------ claims, continued
\* request.messages, or the empty list when it is missing.
PriorTurns == IF call.request.hasMessages THEN call.request.messages ELSE <<>>

UserTurn == [role |-> "user", content |-> call.request.message]

ChatRequestSent ==
    call.op \in {"createChat", "continueChat"} /\ sent.issued

\* C13: the message list of the upstream request of continueChat is the prior
\* turns of the request (role and content, in their order, all of them)
\* followed by one user turn holding request.message; that of createChat is
\* the user turn alone.  Streaming or not, all four adapters.
C13_PriorTurnsThenMessage ==
    ChatRequestSent =>
        IF call.op = "continueChat"
        THEN /\ Len(sent.messages) = Len(PriorTurns) + 1
             /\ \A i \in 1..Len(PriorTurns) :
                    /\ sent.messages[i].role = PriorTurns[i].role
                    /\ sent.messages[i].content = PriorTurns[i].content
             /\ Last(sent.messages) = UserTurn
        ELSE sent.messages = <<UserTurn>>

\* continueChat with two prior turns that differ in role and content.
C13_Witness ==
    /\ ChatRequestSent
    /\ call.op = "continueChat"
    /\ Len(PriorTurns) = 2
    /\ PriorTurns[1].role = "user" /\ PriorTurns[2].role = "assistant"
    /\ PriorTurns[1].content # PriorTurns[2].content
    /\ Len(sent.messages) = 3

\* C14: the ChatResponse of a synchronous call whose upstream request held n
\* turns has n + 1 messages: message i (from 0) has id "msg-i" and the role
\* and content of turn i, and message n has id "msg-n", role assistant and the
\* assistant text of the upstream payload.
C14_ResponseEchoesTurns ==
    returned.kind = "response" =>
        LET n == Len(sent.messages)
            ms == returned.messages
        IN  /\ Len(ms) = n + 1
            /\ \A i \in 0..(n - 1) :
                   /\ ms[i + 1].id = MsgId(i)
                   /\ ms[i + 1].role = sent.messages[i + 1].role
                   /\ ms[i + 1].content = sent.messages[i + 1].content
            /\ ms[n + 1].id = MsgId(n)
            /\ ms[n + 1].role = "assistant"
            /\ ms[n + 1].content = answer.content

\* A response to continueChat with two prior turns and a non-empty reply.
C14_Witness ==
    /\ returned.kind = "response"
    /\ call.op = "continueChat"
    /\ Len(sent.messages) = 3
    /\ Len(returned.messages) = 4
    /\ answer.content # <<>>

\* C15: the assistant turn of the ChatResponse of a synchronous call, in all
\* four adapters, carries a Document, and it is the formatter's Document of
\* the assistant text.
C15_SyncCarriesDocument ==
    returned.kind = "response" =>
        LET turn == Last(returned.messages)
        IN  /\ "experimental_content" \in DOMAIN turn
            /\ turn.experimental_content
                   = formatContentAsMessageBinaryFormat(answer.content)

\* C16: a streaming call whose upstream body was read to its end, and whose
\* consumer did not cancel, has enqueued the [DONE] frame as its last frame
\* and asked the stream to close; the frames before it are data frames.
C16_DoneFrameThenClose ==
    (StreamCompleted /\ ~cancelled) =>
        /\ out # <<>>
        /\ Last(out) = DoneFrame
        /\ \A i \in 1..(Len(out) - 1) :
               out[i].type \in {"metadata", "delta", "text"}
        /\ closeRequested

IsPrefix(s, t) == Len(s) <= Len(t) /\ SubSeq(t, 1, Len(s)) = s

\* C17: in every step of a streaming call the accumulated plain text keeps
\* its previous value as a prefix (malformed lines and events without content
\* included), and it is the concatenation of the incremental texts extracted
\* so far.
C17_AccumulatorOnlyGrows ==
    [][/\ IsPrefix(fullContent, fullContent')
       /\ provider \in NdjsonProviders =>
              fullContent' = Concat(extracted')]_vars

\* Text was accumulated before and after a line that was skipped.
C17_Witness ==
    /\ provider \in NdjsonProviders
    /\ Len(seenLines) = 3
    /\ Malformed(provider, seenLines[2])
    /\ Len(extracted) = 2
    /\ fullContent = extracted[1] \o extracted[2]
    /\ logged = 1

\* The model-listing request failed: it was rejected, answered without
\* success, or answered with a body that is no JSON.
ModelsRequestFailed ==
    \/ answer.kind = "rejected"
    \/ answer.kind = "response" /\ (~answer.ok \/ answer.body = "unparsable")

\* C18: listModels whose request failed returns the adapter's fallback list,
\* which is not empty.
C18_ListModelsFallsBack ==
    (call.op = "listModels" /\ returned.kind = "models"
        /\ ModelsRequestFailed) =>
        /\ returned.models = FallbackModels(call.provider)
        /\ returned.models # <<>>

Captures(error, part) == \E i \in 1..Len(error) : error[i] = part

\* C19: a synchronous createChat/continueChat whose upstream answers without
\* success returns no ChatResponse: it throws an error whose message holds
\* the upstream status and the upstream response text.
C19_SyncErrorCapturesUpstream ==
    (call.op \in {"createChat", "continueChat"}
        /\ answer.kind = "response" /\ ~answer.ok) =>
        /\ returned.kind = "threw"
        /\ Captures(returned.error, answer.status)
        /\ Captures(returned.error, answer.errorText)

\* C20: the chat request carries the Authorization header "Bearer " +
\* config.apiKey when config.apiKey is set, and no Authorization header when
\* it is not.
C20_BearerIffApiKey ==
    (ChatRequestSent /\ sent.path = "chat") =>
        IF call.config.apiKey # NoKey
        THEN sent.authorization =
                 [present |-> TRUE, scheme |-> "Bearer",
                  credentials |-> call.config.apiKey]
        ELSE ~sent.authorization.present

\* The defaultBaseUrl the provider catalogue (getAllProviders) gives for each
\* adapter.
defaultBaseUrl(p) ==
    IF p = "ollama" THEN <<"http://localhost:11434">>
    ELSE IF p = "ollama-cloud" THEN <<"https://ollama.com">>
    ELSE IF p = "lmstudio" THEN <<"http://localhost:1234">>
    ELSE <<"https://api.llama-api.com">>

\* The path of the chat endpoint of each wire protocol.
ChatPath(p) ==
    IF p \in NdjsonProviders THEN "/api/chat" ELSE "/v1/chat/completions"

\* C21: the chat request of each adapter goes to base + the provider's fixed
\* path (/api/chat for the newline-JSON adapters, /v1/chat/completions for
\* both SSE adapters), where base is config.baseUrl when given and the
\* built-in default otherwise; the model sent is config.modelName when given
\* and the built-in default otherwise.
C21_TargetAndModelResolution ==
    ChatRequestSent =>
        LET p == call.provider
            cfg == call.config
            base == IF cfg.baseUrl # NoUrl THEN cfg.baseUrl
                    ELSE defaultBaseUrl(p)
        IN  /\ sent.url = base \o <<ChatPath(p)>>
            /\ sent.model = IF cfg.modelName # NoModel THEN cfg.modelName
                            ELSE ModelName(p, [cfg EXCEPT !.modelName = NoModel])

\* What adapter p returns for the current call, given the request it sent and
\* the answer of the upstream so far.
ReturnedBy(p) ==
    IF call.op = "listModels"
    THEN IF answer.kind = "none" THEN NothingReturned
         ELSE [NothingReturned EXCEPT
                 !.kind = "models",
                 !.models = IF answer.kind = "rejected"
                            THEN FallbackModels(p)
                            ELSE ModelsFromAnswer(p, [ok |-> answer.ok,
                                                      body |-> answer.body])]
    ELSE IF answer.kind = "none"
    THEN IF call.request.streaming
         THEN [NothingReturned EXCEPT !.kind = "stream"]
         ELSE NothingReturned
    ELSE IF answer.kind = "rejected"
    THEN [NothingReturned EXCEPT
            !.kind = "threw", !.error = <<"fetch failed">>]
    ELSE IF answer.ok
    THEN [NothingReturned EXCEPT
            !.kind = "response",
            !.messages = ChatResponseMessages(p, sent.messages,
                                              answer.content)]
    ELSE [NothingReturned EXCEPT
            !.kind = "threw",
            !.error = SyncError(p, [status |-> answer.status,
                                    statusText |-> answer.statusText],
                                answer.errorText)]

\* C23: with an apiKey in the config, what OllamaCloudProvider sends and
\* returns in createChat, continueChat and listModels is what OllamaProvider
\* sends and returns for the same request and the same config in which an
\* absent baseUrl is https://ollama.com; without an apiKey its chat calls are
\* rejected before any request and listModels still behaves as the local one.
C23_CloudRefinesLocal ==
    (call.provider = "ollama-cloud" /\ call.op # "none") =>
        LET cfg == call.config
            local == IF cfg.baseUrl = NoUrl
                     THEN [cfg EXCEPT !.baseUrl = <<"https://ollama.com">>]
                     ELSE cfg
        IN  IF call.op = "listModels"
            THEN /\ sent = ModelsFetch("ollama", local)
                 /\ returned = ReturnedBy("ollama")
            ELSE IF cfg.apiKey # NoKey
            THEN /\ sent = ChatFetch(call.op, "ollama", call.request, local)
                 /\ returned = ReturnedBy("ollama")
            ELSE /\ sent = NothingSent
                 /\ returned.kind = "threw"

\* C23 witness: a chat call of the cloud adapter with an apiKey and a
\* configured baseUrl has got its response.
C23_Witness ==
    /\ call.provider = "ollama-cloud"
    /\ call.op \in {"createChat", "continueChat"}
    /\ call.config.apiKey # NoKey
    /\ call.config.baseUrl # NoUrl
    /\ returned.kind = "response"

\* data: [DONE], as the upstream sends it.
DoneLine == <<DATA_PREFIX, DONE_TOKEN>>

\* A line that does not start with the "data: " prefix.
Unprefixed(line) == Trim(line) = <<>> \/ Head(Trim(line)) # DATA_PREFIX

\* The positions of seenLines that hold a prefixed payload other than [DONE]
\* whose parse succeeds (ok) or fails (~ok).
PrefixedPayloads(ok) ==
    {i \in 1..Len(seenLines) :
        /\ ~Unprefixed(seenLines[i])
        /\ Trim(seenLines[i]) # DoneLine
        /\ ParseEvent(Tail(Trim(seenLines[i]))).ok = ok}

\* C24: in a streaming call of lmstudio or llama, the line data: [DONE] goes
\* through the loop without a frame, without a diagnostic and without a
\* change to the locals (it is not handed to the JSON parser, which would
\* fail on it), and a line without the prefix yields no frame; so the
\* diagnostics logged are those of the prefixed payloads other than [DONE]
\* that fail to parse, and there are no more content frames than prefixed
\* payloads that parse.
C24_DoneAndUnprefixedSkipped ==
    (result = "stream" /\ provider \in SseProviders) =>
        /\ pc = "read" =>
               /\ ProcessLine(provider, LoopProgress, DoneLine, TRUE)
                      = LoopProgress
               /\ \A line \in SseLines :
                      Unprefixed(line) =>
                          ProcessLine(provider, LoopProgress, line,
                                      TRUE).frames = <<>>
        /\ Len(ContentFrames(out)) <= Cardinality(PrefixedPayloads(TRUE))
        /\ ~cancelled => logged = Cardinality(PrefixedPayloads(FALSE))

\* C24 witness: a completed SSE stream whose body held an event, a line
\* without the prefix and data: [DONE]: one content frame, nothing logged.
C24_Witness ==
    /\ StreamCompleted
    /\ provider \in SseProviders
    /\ ~cancelled
    /\ \E i \in 1..Len(seenLines) : seenLines[i] = DoneLine
    /\ \E i \in 1..Len(seenLines) : Unprefixed(seenLines[i])
    /\ Len(ContentFrames(out)) = 1
    /\ logged = 0

\* C25: a createChat/continueChat call, streaming or not, issues at most one
\* upstream chat request; once the upstream has failed (the fetch rejected,
\* the status was not ok, the body was missing, a read rejected) the call is
\* over with that one request issued: the stream is errored unless the
\* consumer had cancelled it, the synchronous call has thrown.
C25_NoRetry ==
    /\ fetches <= 1
    /\ failure # "none" =>
           /\ pc = "done"
           /\ fetches = 1
           /\ result = "stream"
           /\ ~cancelled => streamState = "errored"
    /\ thrown = "upstream" =>
           /\ pc = "done"
           /\ fetches = 1
           /\ result = "threw"

\* C25 witness: a streaming call whose upstream request failed has ended
\* errored after its single request.
C25_Witness ==
    /\ failure \in {"network", "status", "nobody"}
    /\ fetches = 1
    /\ pc = "done"
    /\ streamState = "errored"

\* C29: when the upstream body is exhausted while the carry-over buffer holds
\* a complete event (a last line without its line terminator), that event is
\* processed too: the texts extracted in a stream that ran to completion are
\* those of all the lines of the body, the unterminated last one included.
C29_FinalLineFlushed ==
    (StreamCompleted /\ ~cancelled) =>
        extracted = EventContents(provider, Append(seenLines, buffer))

\* ------------------------------------------------------ ProviderFactory
\* Lookups made per run.
MaxLookups == 2

\* The keys of ProviderFactory.providers.
ProviderTypes == {"v0", "ollama", "ollama-cloud", "lmstudio", "llama"}

\* The identifiers a caller may pass: the keys and two strings that are none.
RequestedTypes == ProviderTypes \cup {"openai", ""}

\* The adapter objects, in the order the static initializer creates them.
ObjectOf(type) ==
    IF type = "v0" THEN 1
    ELSE IF type = "ollama" THEN 2
    ELSE IF type = "ollama-cloud" THEN 3
    ELSE IF type = "lmstudio" THEN 4
    ELSE 5

\* private static providers = new Map([["v0", new V0Provider()], ...]): per
\* key the object and its name field.
providers ==
    [type \in ProviderTypes |-> [object |-> ObjectOf(type), name |-> type]]

NoProvider == [object |-> 0, name |-> ""]

\* A lookup that answers an unknown key with the first adapter.
GetProviderDefaulting(type) ==
    [threw |-> FALSE, error |-> <<>>,
     provider |-> IF type \in DOMAIN providers THEN providers[type]
                  ELSE providers["v0"]]

\* ProviderFactory.getProvider(type)
GetProvider(type) ==
    IF type \in DOMAIN providers
    THEN [threw |-> FALSE, error |-> <<>>, provider |-> providers[type]]
    ELSE [threw |-> TRUE, error |-> <<"Provider ", type, " not found">>,
          provider |-> NoProvider]

\* What provider.listModels(config) may resolve to.
ListedNames(type) ==
    IF type \in {"v0", "llama"} THEN {FallbackModels(type)}
    ELSE {FallbackModels(type), UpstreamModels, <<>>}

\* modelNames.map((name) => ({id: name, name, provider: providerType}))
ModelInfos(type, names) ==
    [i \in 1..Len(names) |->
        [id |-> names[i], name |-> names[i], provider |-> type]]

getProvider(type) ==
    /\ Len(lookups) < MaxLookups
    /\ lookups' = Append(lookups,
                         [op |-> "getProvider", type |-> type,
                          outcome |-> GetProvider(type),
                          listModelsCalled |-> FALSE, models |-> <<>>])
    /\ UNCHANGED <<vars, pairVars, formatVars, adapterVars, clientVars, routeVars,
                   configVars>>

\* getAvailableModels(providerType, config), with what listModels gave.
getAvailableModels(type, names) ==
    /\ Len(lookups) < MaxLookups
    /\ LET got == GetProvider(type)
       IN  lookups' =
               Append(lookups,
                      [op |-> "getAvailableModels", type |-> type,
                       outcome |-> got,
                       listModelsCalled |-> ~got.threw,
                       models |-> IF got.threw THEN <<>>
                                  ELSE ModelInfos(type, names)])
    /\ UNCHANGED <<vars, pairVars, formatVars, adapterVars, clientVars, routeVars,
                   configVars>>

RegistryInit ==
    StreamIdle /\ PairIdle /\ FormatIdle /\ AdapterIdle /\ BoundaryIdle

RegistryNext ==
    \/ \E type \in RequestedTypes : getProvider(type)
    \/ \E type \in RequestedTypes :
          \E names \in (IF type \in ProviderTypes THEN ListedNames(type)
                        ELSE {<<>>}) :
              getAvailableModels(type, names)

RegistrySpec == RegistryInit /\ [][RegistryNext]_<<vars, otherVars>>

\* C22: for each of the five registered identifiers every lookup gives the
\* same adapter object, whose name is the identifier; for any other
\* identifier getProvider throws "Provider <id> not found", and
\* getAvailableModels throws the same without calling listModels on any
\* adapter.
C22_RegistryResolution ==
    \A i \in 1..Len(lookups) :
        LET l == lookups[i]
        IN  IF l.type \in ProviderTypes
            THEN /\ ~l.outcome.threw
                 /\ l.outcome.provider.name = l.type
                 /\ \A j \in 1..Len(lookups) :
                        lookups[j].type = l.type =>
                            lookups[j].outcome.provider.object
                                = l.outcome.provider.object
                 /\ \A j \in 1..Len(lookups) :
                        lookups[j].type # l.type =>
                            lookups[j].outcome.provider.object
                                # l.outcome.provider.object
            ELSE /\ l.outcome.threw
                 /\ l.outcome.error = <<"Provider ", l.type, " not found">>
                 /\ ~l.listModelsCalled
                 /\ l.models = <<>>

\* C22 witness: getProvider and then getAvailableModels were called with an
\* unregistered identifier.
C22_Witness ==
    /\ Len(lookups) = 2
    /\ lookups[1].op = "getProvider"
    /\ lookups[2].op = "getAvailableModels"
    /\ lookups[1].type \notin ProviderTypes
    /\ lookups[2].type \notin ProviderTypes
    /\ lookups[2].outcome.threw

\* ----------------------------------------------------------- V0Provider
V0Requests ==
    [message : {"m1", "m2"}, chatId : {NoChatId, "c1", "c2"},
     streaming : BOOLEAN, attachments : {<<>>, <<"file-1">>}]
V0Configs == [apiKey : {NoKey, "sk-1"}, baseUrl : {NoUrl, <<"http://host:8080">>}]

\* clientConfig: baseUrl and apiKey are copied when they are truthy.
ClientConfig(cfg) == [baseUrl |-> cfg.baseUrl, apiKey |-> cfg.apiKey]

\* client.chats.create({message, responseMode, attachments?})
CreateCall(req) ==
    [method |-> "create", chatId |-> NoChatId, message |-> req.message,
     responseMode |-> IF req.streaming THEN "experimental_stream" ELSE "sync",
     attachments |-> req.attachments]

\* client.chats.sendMessage({chatId, message, responseMode, attachments?})
SendMessageCall(req) ==
    [method |-> "sendMessage", chatId |-> req.chatId,
     message |-> req.message,
     responseMode |-> IF req.streaming THEN "experimental_stream"
                      ELSE "undefined",
     attachments |-> req.attachments]

V0Provider_createChat(req, cfg) ==
    /\ v0call.op = "none"
    /\ v0call' = [op |-> "createChat", request |-> req, config |-> cfg]
    /\ clients' = Append(clients, ClientConfig(cfg))
    /\ sdkCalls' = Append(sdkCalls, CreateCall(req))
    /\ UNCHANGED <<sdkAnswer, v0returned>>
    /\ UNCHANGED <<vars, pairVars, formatVars, adapterVars, registryVars,
                   routeVars, configVars>>

\* A continueChat that does not look at request.chatId.
V0Provider_continueChatUnchecked(req, cfg) ==
    /\ v0call.op = "none"
    /\ v0call' = [op |-> "continueChat", request |-> req, config |-> cfg]
    /\ clients' = Append(clients, ClientConfig(cfg))
    /\ sdkCalls' = Append(sdkCalls, SendMessageCall(req))
    /\ UNCHANGED <<sdkAnswer, v0returned>>
    /\ UNCHANGED <<vars, pairVars, formatVars, adapterVars, registryVars,
                   routeVars, configVars>>

\* continueChat up to its await: the chatId check, createClient, sendMessage.
V0Provider_continueChat(req, cfg) ==
    /\ v0call.op = "none"
    /\ v0call' = [op |-> "continueChat", request |-> req, config |-> cfg]
    /\ IF req.chatId = NoChatId
       THEN /\ v0returned' =
                   [NothingReturnedByV0 EXCEPT
                      !.kind = "threw",
                      !.error = <<"Chat ID is required for continuing chat">>]
            /\ UNCHANGED <<clients, sdkCalls>>
       ELSE /\ clients' = Append(clients, ClientConfig(cfg))
            /\ sdkCalls' = Append(sdkCalls, SendMessageCall(req))
            /\ UNCHANGED v0returned
    /\ UNCHANGED sdkAnswer
    /\ UNCHANGED <<vars, pairVars, formatVars, adapterVars, registryVars,
                   routeVars, configVars>>

\* listModels returns its fixed list.
V0Provider_listModels(cfg) ==
    /\ v0call.op = "none"
    /\ v0call' = [op |-> "listModels", request |-> NoV0Request,
                  config |-> cfg]
    /\ v0returned' = [NothingReturnedByV0 EXCEPT
                        !.kind = "models", !.models = FallbackModels("v0")]
    /\ UNCHANGED <<clients, sdkCalls, sdkAnswer>>
    /\ UNCHANGED <<vars, pairVars, formatVars, adapterVars, registryVars,
                   routeVars, configVars>>

SdkPending ==
    /\ v0call.op \in {"createChat", "continueChat"}
    /\ sdkCalls # <<>>
    /\ v0returned.kind = "none"

\* The ChatDetail values the SDK resolves to.
ChatDetails ==
    {[id |-> "c1", demo |-> "https://demo/c1",
      messages |-> <<[role |-> "assistant", content |-> "a",
                      experimental_content |-> <<"p">>]>>],
     [id |-> "c2", demo |-> "", messages |-> <<>>]}

\* mapV0Response
mapV0Response(chatDetail) ==
    [NothingReturnedByV0 EXCEPT
       !.kind = "response", !.id = chatDetail.id, !.demo = chatDetail.demo,
       !.messages = [i \in 1..Len(chatDetail.messages) |->
                        [chatDetail.messages[i] EXCEPT
                           !.experimental_content =
                               chatDetail.messages[i].experimental_content]]]

\* The SDK call resolves to a ChatDetail.
SdkResolves(chatDetail) ==
    /\ SdkPending
    /\ ~v0call.request.streaming
    /\ sdkAnswer' = [NoSdkAnswer EXCEPT
                       !.kind = "detail", !.id = chatDetail.id,
                       !.demo = chatDetail.demo,
                       !.messages = chatDetail.messages]
    /\ v0returned' = mapV0Response(chatDetail)
    /\ UNCHANGED <<v0call, clients, sdkCalls>>
    /\ UNCHANGED <<vars, pairVars, formatVars, adapterVars, registryVars,
                   routeVars, configVars>>

\* The SDK call resolves to a ReadableStream, returned as it is.
SdkStreams ==
    /\ SdkPending
    /\ v0call.request.streaming
    /\ sdkAnswer' = [NoSdkAnswer EXCEPT !.kind = "stream"]
    /\ v0returned' = [NothingReturnedByV0 EXCEPT !.kind = "stream"]
    /\ UNCHANGED <<v0call, clients, sdkCalls>>
    /\ UNCHANGED <<vars, pairVars, formatVars, adapterVars, registryVars,
                   routeVars, configVars>>

\* The SDK call rejects: the adapter has no catch.
SdkRejects ==
    /\ SdkPending
    /\ sdkAnswer' = [NoSdkAnswer EXCEPT !.kind = "rejected"]
    /\ v0returned' = [NothingReturnedByV0 EXCEPT
                        !.kind = "threw", !.error = <<"sdk error">>]
    /\ UNCHANGED <<v0call, clients, sdkCalls>>
    /\ UNCHANGED <<vars, pairVars, formatVars, adapterVars, registryVars,
                   routeVars, configVars>>

V0Init == StreamIdle /\ PairIdle /\ FormatIdle /\ AdapterIdle /\ BoundaryIdle

V0Next ==
    \/ \E req \in V0Requests, cfg \in V0Configs :
          V0Provider_createChat(req, cfg)
    \/ \E req \in V0Requests, cfg \in V0Configs :
          V0Provider_continueChat(req, cfg)
    \/ \E cfg \in V0Configs : V0Provider_listModels(cfg)
    \/ \E chatDetail \in ChatDetails : SdkResolves(chatDetail)
    \/ SdkStreams
    \/ SdkRejects

V0Spec == V0Init /\ [][V0Next]_<<vars, otherVars>>

\* C26: V0Provider.continueChat without request.chatId throws "Chat ID is
\* required for continuing chat" with no client created and no SDK call made;
\* with a chatId it creates one client and makes exactly one call,
\* sendMessage, carrying that chatId and the message of the request.
C26_ContinueNeedsChatId ==
    v0call.op = "continueChat" =>
        IF v0call.request.chatId = NoChatId
        THEN /\ clients = <<>>
             /\ sdkCalls = <<>>
             /\ v0returned.kind = "threw"
             /\ v0returned.error = <<"Chat ID is required for continuing chat">>
        ELSE /\ Len(clients) = 1
             /\ Len(sdkCalls) = 1
             /\ sdkCalls[1].method = "sendMessage"
             /\ sdkCalls[1].chatId = v0call.request.chatId
             /\ sdkCalls[1].message = v0call.request.message

\* C26 witness: a continuation without chatId was rejected.
C26_Witness ==
    /\ v0call.op = "continueChat"
    /\ v0call.request.chatId = NoChatId
    /\ v0returned.kind = "threw"

\* ------------------------------------------------------- the chat route
\* entitlements: the messages a caller may send per day.
MaxMessagesPerDay == 1

\* getClientIP(request): every request of a run comes from one address.
ClientIP == "ip-1"

Sessions == {NoSession, "user-1"}

\* getChatCountByUserId({userId, differenceInHours: 24}): the rows of
\* chat_ownerships of the user in the window.
getChatCountByUserId(userId) ==
    Cardinality({i \in 1..Len(ownerships) : ownerships[i].userId = userId})

\* getChatCountByIP({ipAddress, differenceInHours: 24}): the rows of
\* anonymous_chat_logs of the address in the window.
getChatCountByIP(ipAddress) ==
    Cardinality({i \in 1..Len(anonymousLogs) :
                    anonymousLogs[i].ipAddress = ipAddress})

\* The provider of the request: the preference of the signed-in user, "v0"
\* without a session (or without a preference).
ProviderTypesOf(session) ==
    IF session = NoSession THEN {"v0"} ELSE ProviderTypes

\* await auth(), await request.json(), the message check, the preference.
Receive(r, session, message, chatId, streaming, providerType) ==
    /\ reqs[r].pc = "idle"
    /\ providerType \in ProviderTypesOf(session)
    /\ reqs' =
         [reqs EXCEPT ![r] =
            IF message = ""
            THEN [@ EXCEPT !.pc = "done", !.session = session,
                           !.chatId = chatId, !.streaming = streaming,
                           !.http = [status |-> 400, kind |-> "error",
                                     id |-> ""]]
            ELSE [@ EXCEPT !.pc = "limit", !.session = session,
                           !.message = message, !.chatId = chatId,
                           !.streaming = streaming,
                           !.providerType = providerType]]
    /\ UNCHANGED <<ownerships, anonymousLogs>>
    /\ UNCHANGED <<vars, pairVars, formatVars, adapterVars, registryVars,
                   clientVars, configVars>>

\* The count comes back: the rate_limit response, or getProvider and the
\* call of continueChat (chatId given) or createChat.
RateLimit(r) ==
    /\ reqs[r].pc = "limit"
    /\ LET q == reqs[r]
           chatCount == IF q.session # NoSession
                        THEN getChatCountByUserId(q.session)
                        ELSE getChatCountByIP(ClientIP)
       IN  reqs' =
             [reqs EXCEPT ![r] =
                IF chatCount >= MaxMessagesPerDay
                THEN [@ EXCEPT !.pc = "done",
                               !.http = [status |-> 429,
                                         kind |-> "rate_limit", id |-> ""]]
                ELSE [@ EXCEPT
                        !.pc = "provider",
                        !.invoked =
                            [op |-> IF q.chatId # NoChatId
                                    THEN "continueChat" ELSE "createChat",
                             request |->
                                 [message |-> q.message,
                                  chatId |-> q.chatId,
                                  hasMessages |-> FALSE, messages |-> <<>>,
                                  streaming |-> q.streaming]]]]
    /\ UNCHANGED <<ownerships, anonymousLogs>>
    /\ UNCHANGED <<vars, pairVars, formatVars, adapterVars, registryVars,
                   clientVars, configVars>>

\* The id of the ChatResponse of a request: the adapters generate one per
\* call, the SDK of the v0 adapter gives the one of its chat.
ChatIdOf(r) == IF r = 1 THEN "chat-1" ELSE "chat-2"

\* What the adapter call resolves to: a stream for a streaming request, a
\* ChatResponse otherwise (from the SDK possibly without id), or an error.
ProviderResults(r) ==
    {[kind |-> "threw", id |-> ""]}
    \cup (IF reqs[r].streaming THEN {[kind |-> "stream", id |-> ""]}
          ELSE {[kind |-> "response", id |-> ChatIdOf(r)]}
               \cup (IF reqs[r].providerType = "v0"
                     THEN {[kind |-> "response", id |-> ""]} ELSE {}))

\* A route that records every ChatResponse that has an id.
NeedsRecordAlways(chatId, chatResponse) == chatResponse.id # ""

\* if (!chatId && chatResponse.id)
NeedsRecord(chatId, chatResponse) ==
    chatId = NoChatId /\ chatResponse.id # ""

\* The adapter call settles: the stream is returned as the body, an error
\* reaches the outer catch, a ChatResponse is recorded first when needed.
ProviderReturns(r, res) ==
    /\ reqs[r].pc = "provider"
    /\ reqs' =
         [reqs EXCEPT ![r] =
            IF res.kind = "threw"
            THEN [@ EXCEPT !.pc = "done", !.result = res,
                           !.http = [status |-> 500, kind |-> "error",
                                     id |-> ""]]
            ELSE IF res.kind = "stream"
            THEN [@ EXCEPT !.pc = "done", !.result = res,
                           !.http = [status |-> 200, kind |-> "stream",
                                     id |-> ""]]
            ELSE IF NeedsRecord(@.chatId, res)
            THEN [@ EXCEPT !.pc = "write", !.result = res]
            ELSE [@ EXCEPT !.pc = "done", !.result = res,
                           !.http = [status |-> 200, kind |-> "json",
                                     id |-> res.id]]]
    /\ UNCHANGED <<ownerships, anonymousLogs>>
    /\ UNCHANGED <<vars, pairVars, formatVars, adapterVars, registryVars,
                   clientVars, configVars>>

\* createChatOwnership({v0ChatId, userId}) / createAnonymousChatLog(
\* {ipAddress, v0ChatId}) resolves, then NextResponse.json(chatResponse).
WriteOk(r) ==
    /\ reqs[r].pc = "write"
    /\ IF reqs[r].session # NoSession
       THEN /\ ownerships' = Append(ownerships,
                                    [v0ChatId |-> reqs[r].result.id,
                                     userId |-> reqs[r].session])
            /\ UNCHANGED anonymousLogs
       ELSE /\ anonymousLogs' = Append(anonymousLogs,
                                       [ipAddress |-> ClientIP,
                                        v0ChatId |-> reqs[r].result.id])
            /\ UNCHANGED ownerships
    /\ reqs' = [reqs EXCEPT ![r] =
                  [@ EXCEPT !.pc = "done",
                            !.http = [status |-> 200, kind |-> "json",
                                      id |-> reqs[r].result.id]]]
    /\ UNCHANGED <<vars, pairVars, formatVars, adapterVars, registryVars,
                   clientVars, configVars>>

\* The write rejects: the catch logs it, then NextResponse.json(chatResponse).
WriteFails(r) ==
    /\ reqs[r].pc = "write"
    /\ reqs' = [reqs EXCEPT ![r] =
                  [@ EXCEPT !.pc = "done",
                            !.http = [status |-> 200, kind |-> "json",
                                      id |-> reqs[r].result.id]]]
    /\ UNCHANGED <<ownerships, anonymousLogs>>
    /\ UNCHANGED <<vars, pairVars, formatVars, adapterVars, registryVars,
                   clientVars, configVars>>

RouteInit == StreamIdle /\ PairIdle /\ FormatIdle /\ AdapterIdle /\ BoundaryIdle

RouteNext ==
    \/ \E r \in Reqs, session \in Sessions, message \in {"", "m1"},
          chatId \in {NoChatId, "c1"}, streaming \in BOOLEAN,
          providerType \in ProviderTypes :
          Receive(r, session, message, chatId, streaming, providerType)
    \/ \E r \in Reqs : RateLimit(r)
    \/ \E r \in Reqs : \E res \in ProviderResults(r) : ProviderReturns(r, res)
    \/ \E r \in Reqs : WriteOk(r)
    \/ \E r \in Reqs : WriteFails(r)

RouteSpec == RouteInit /\ [][RouteNext]_<<vars, otherVars>>

\* A step that adds or changes a row of one of the two tables.
StoreWritten == ownerships' # ownerships \/ anonymousLogs' # anonymousLogs

\* Request r, back from a createChat that returned a ChatResponse with an
\* id, adds its row (chat_ownerships with a session, anonymous_chat_logs
\* without) and nothing else, and ends.
RecordsNewChat(r) ==
    /\ reqs[r].pc = "write"
    /\ reqs'[r].pc = "done"
    /\ reqs[r].chatId = NoChatId
    /\ reqs[r].invoked.op = "createChat"
    /\ reqs[r].result.kind = "response"
    /\ reqs[r].result.id # ""
    /\ IF reqs[r].session # NoSession
       THEN /\ ownerships' = Append(ownerships,
                                    [v0ChatId |-> reqs[r].result.id,
                                     userId |-> reqs[r].session])
            /\ anonymousLogs' = anonymousLogs
       ELSE /\ anonymousLogs' = Append(anonymousLogs,
                                       [ipAddress |-> ClientIP,
                                        v0ChatId |-> reqs[r].result.id])
            /\ ownerships' = ownerships

\* C27: a row of chat_ownerships (signed-in user) or anonymous_chat_logs (no
\* session) is written only by a request that carried no chatId, after its
\* provider call returned a ChatResponse with a non-empty id; requests with
\* a chatId and requests answered with a stream write none; and whether the
\* write succeeded or failed, a request whose provider call returned a
\* ChatResponse answers 200 with that ChatResponse.
C27_RecordAfterNewSyncResponse ==
    /\ [][StoreWritten => \E r \in Reqs : RecordsNewChat(r)]_<<vars, otherVars>>
    /\ [](\A r \in Reqs :
            /\ reqs[r].pc = "write" =>
                   /\ reqs[r].chatId = NoChatId
                   /\ reqs[r].result.kind = "response"
                   /\ reqs[r].result.id # ""
            /\ (reqs[r].pc = "done" /\ reqs[r].result.kind = "response") =>
                   reqs[r].http = [status |-> 200, kind |-> "json",
                                   id |-> reqs[r].result.id])

\* C27 witness: two new chats got their ChatResponse back as JSON; the row
\* of one was written, the write of the other failed.
C27_Witness ==
    /\ \A r \in Reqs :
           /\ reqs[r].pc = "done"
           /\ reqs[r].chatId = NoChatId
           /\ reqs[r].result.kind = "response"
           /\ reqs[r].result.id # ""
           /\ reqs[r].http.kind = "json"
    /\ Len(ownerships) + Len(anonymousLogs) = 1

\* C28: however the requests of one signed-in user, or of one address
\* without session, interleave, the createChat/continueChat calls the route
\* has made for that caller in the window are at most maxMessagesPerDay.
C28_RateLimitUnderInterleaving ==
    \A session \in Sessions :
        Cardinality({r \in Reqs : /\ reqs[r].session = session
                                  /\ reqs[r].invoked.op # "none"})
            <= MaxMessagesPerDay

\* The turns the conversation of a chatId holds before the continuation.
ConversationTurns(chatId) ==
    <<[role |-> "user", content |-> "m0"],
      [role |-> "assistant", content |-> "a0"]>>

\* C30: when the route continues a chat with ollama, ollama-cloud, lmstudio
\* or llama, the message list the adapter sends upstream is the prior turns
\* of the conversation followed by the new user message.
C30_RouteSendsPriorTurns ==
    \A r \in Reqs :
        (reqs[r].invoked.op = "continueChat" /\ reqs[r].providerType # "v0")
            => UpstreamMessages("continueChat", reqs[r].invoked.request)
                   = ConversationTurns(reqs[r].chatId)
                     \o <<[role |-> "user", content |-> reqs[r].message]>>

\* C32: in the chat request of lmstudio and llama, temperature is
\* config.temperature whenever the config has one, 0 included, and max_tokens
\* is config.maxTokens whenever the config has one, 0 included; the defaults
\* 0.7 and 2000 are sent only when the key is missing.
C32_SamplingForwardedUnchanged ==
    (ChatRequestSent /\ call.provider \in SseProviders) =>
        /\ sent.temperature = IF call.config.temperature # NoNumber
                              THEN call.config.temperature
                              ELSE DefaultTemperature
        /\ sent.max_tokens = IF call.config.maxTokens # NoNumber
                             THEN call.config.maxTokens
                             ELSE DefaultMaxTokens

\* The Documents of the delta frames of the call, in the order enqueued.
DeltaDocuments ==
    LET deltas == SelectType(out, {"delta"})
    IN  [i \in 1..Len(deltas) |-> deltas[i].delta]

\* Document e continues Document d: no fewer blocks, the blocks of d but the
\* last unchanged at their index, and the last block of d, with its type,
\* a prefix of the block of e at that index.
Continues(d, e) ==
    /\ Len(e) >= Len(d)
    /\ \A k \in 1..(Len(d) - 1) : e[k] = d[k]
    /\ Len(d) > 0 =>
           /\ e[Len(d)][1] = d[Len(d)][1]
           /\ IsPrefix(d[Len(d)][2], e[Len(d)][2])

\* C33: in one streaming call, of every two consecutive delta frames the
\* later Document has at least as many blocks as the earlier, repeats all
\* its blocks but the last at the same index, and extends the text of its
\* last block.
C33_DocumentStableAcrossDeltas ==
    \A i \in 1..(Len(DeltaDocuments) - 1) :
        Continues(DeltaDocuments[i], DeltaDocuments[i + 1])

\* C33 witness: a completed call with two delta frames, the second of which
\* keeps the block of the first and adds one.
C33_Witness ==
    /\ StreamCompleted
    /\ Len(DeltaDocuments) = 2
    /\ Len(DeltaDocuments[1]) = 1
    /\ Len(DeltaDocuments[2]) = 2
    /\ DeltaDocuments[2][1] = DeltaDocuments[1][1]

\* ProviderFactory.getAllProviders(): id and requiresApiKey of each entry, in
\* the order listed.
getAllProviders ==
    <<[id |-> "v0", requiresApiKey |-> TRUE],
      [id |-> "ollama", requiresApiKey |-> FALSE],
      [id |-> "ollama-cloud", requiresApiKey |-> TRUE],
      [id |-> "lmstudio", requiresApiKey |-> FALSE],
      [id |-> "llama", requiresApiKey |-> TRUE]>>

\* C34: getAllProviders lists the identifiers getProvider resolves, each
\* once, and requiresApiKey of an entry is true exactly when createChat of
\* that adapter rejects a config without apiKey before any upstream call:
\* for ollama, ollama-cloud, lmstudio and llama by their credential check,
\* for v0 in every createChat call made without apiKey.
C34_CatalogueAgreesWithAdapters ==
    /\ {getAllProviders[i].id : i \in 1..Len(getAllProviders)} = DOMAIN providers
    /\ \A i, j \in 1..Len(getAllProviders) :
           getAllProviders[i].id = getAllProviders[j].id => i = j
    /\ \A i \in 1..Len(getAllProviders) :
           LET entry == getAllProviders[i]
           IN  IF entry.id = "v0"
               THEN (v0call.op = "createChat"
                     /\ v0call.config.apiKey = NoKey) =>
                        (entry.requiresApiKey <=>
                            /\ v0returned.kind = "threw"
                            /\ clients = <<>>
                            /\ sdkCalls = <<>>)
               ELSE entry.requiresApiKey <=> RequiresApiKey(entry.id)

\* ------------------------------------- the chat route: provider config
\* user_preferences.provider_config, by what JSON.parse makes of it: no
\* value, a text that is no JSON, the JSON null, an object.
StoredConfigs ==
    {[kind |-> k, apiKey |-> NoKey, baseUrl |-> NoUrl] :
        k \in {"absent", "unparsable", "null"}}
    \cup [kind : {"object"}, apiKey : {NoKey, "user-key-1", "user-key-2"},
          baseUrl : {NoUrl, <<"http://user-host">>}]

\* getUserPreference: no row, or provider, model_name and provider_config.
NoPreference ==
    [present |-> FALSE, provider |-> "v0", model_name |-> NoModel,
     provider_config |-> [kind |-> "absent", apiKey |-> NoKey,
                          baseUrl |-> NoUrl]]
Preferences ==
    {NoPreference}
    \cup [present : {TRUE}, provider : ProviderTypes,
          model_name : {NoModel, "custom-model"},
          provider_config : StoredConfigs]

\* process.env.V0_API_KEY, process.env.V0_API_URL
Envs == [V0_API_KEY : {NoKey, "env-key"},
         V0_API_URL : {NoUrl, <<"https://env-host">>}]

\* A merge in which the key of the user wins over the one of the environment.
MergeV0ApiKeyUserFirst(apiKey, env) ==
    IF apiKey # NoKey THEN apiKey
    ELSE IF env.V0_API_KEY # NoKey THEN env.V0_API_KEY
    ELSE apiKey

\* if (envDefaults.v0ApiKey) providerConfig.apiKey = envDefaults.v0ApiKey
MergeV0ApiKey(apiKey, env) ==
    IF env.V0_API_KEY # NoKey THEN env.V0_API_KEY ELSE apiKey

\* if (envDefaults.v0BaseUrl && !providerConfig.baseUrl) ...
MergeV0BaseUrl(url, env) ==
    IF env.V0_API_URL # NoUrl /\ url = NoUrl THEN env.V0_API_URL ELSE url

\* providerType, modelName and providerConfig of POST after the merge.
\* provider_config null leaves providerConfig null, and the first property
\* read or written on it (at the latest providerConfig.apiKey in the log of
\* the rate-limit block) throws a TypeError.
ProviderConfigOf(session, preference, env) ==
    LET pref == IF session # NoSession THEN preference ELSE NoPreference
        providerType == IF pref.present THEN pref.provider ELSE "v0"
        stored == pref.provider_config
        parsed == [apiKey |-> stored.apiKey, baseUrl |-> stored.baseUrl,
                   modelName |-> NoModel]
        merged == IF providerType = "v0"
                  THEN [parsed EXCEPT
                          !.apiKey = MergeV0ApiKey(@, env),
                          !.baseUrl = MergeV0BaseUrl(@, env)]
                  ELSE parsed
    IN  [providerType |-> providerType,
         threw |-> pref.present /\ stored.kind = "null",
         config |-> [merged EXCEPT !.modelName = pref.model_name]]

\* POST with a message, up to the call of the adapter: the preference, the
\* merge with the environment, the rate limit over the tables as they are,
\* getProvider, createChat.
PostResolves(session, preference, env) ==
    /\ ~resolution.called
    /\ LET r == ProviderConfigOf(session, preference, env)
           chatCount == IF session # NoSession
                        THEN getChatCountByUserId(session)
                        ELSE getChatCountByIP(ClientIP)
       IN  resolution' =
             [called |-> TRUE, session |-> session, env |-> env,
              providerType |-> r.providerType,
              config |-> IF r.threw THEN EmptyConfig ELSE r.config,
              outcome |-> IF r.threw THEN "error"
                          ELSE IF chatCount >= MaxMessagesPerDay
                          THEN "rate_limit"
                          ELSE "createChat"]
    /\ UNCHANGED <<vars, pairVars, formatVars, adapterVars, registryVars,
                   clientVars, routeVars>>

ConfigInit == StreamIdle /\ PairIdle /\ FormatIdle /\ AdapterIdle /\ BoundaryIdle

ConfigNext ==
    \E session \in Sessions, preference \in Preferences, env \in Envs :
        PostResolves(session, preference, env)

ConfigSpec == ConfigInit /\ [][ConfigNext]_<<vars, otherVars>>

\* C31: whenever the route calls the v0 adapter while V0_API_KEY is set, the
\* apiKey of the config it hands over is the value of V0_API_KEY, whatever
\* the stored provider_config of the user holds; and a request without a
\* session is always handed to the v0 adapter.
C31_EnvKeyWinsForV0 ==
    resolution.outcome = "createChat" =>
        /\ (resolution.providerType = "v0"
            /\ resolution.env.V0_API_KEY # NoKey) =>
               resolution.config.apiKey = resolution.env.V0_API_KEY
        /\ resolution.session = NoSession => resolution.providerType = "v0"

\* C31 witness: a signed-in user is handed to the v0 adapter with the key of
\* the environment.
C31_Witness ==
    /\ resolution.outcome = "createChat"
    /\ resolution.session # NoSession
    /\ resolution.providerType = "v0"
    /\ resolution.env.V0_API_KEY # NoKey
    /\ resolution.config.apiKey = resolution.env.V0_API_KEY

====
